---- MODULE Spec2Model ----
(***************************************************************************)
(* Model of scripts/01_data_generation.py (class DataGenerator, main) and  *)
(* of scripts/05_etl_pipeline.py (FleetLogixETL.run_etl).                  *)
(*                                                                         *)
(* The specifications of the module share its variables:                   *)
(*   SpecAlloc  generate_deliveries: the per-trip count allocation         *)
(*              (initial draw, capacity check, cyclic correction loop)     *)
(*              and the emission and insertion of the rows;                *)
(*   SpecTrip   generate_trips for one trip followed by the body of the    *)
(*              per-trip loop of generate_deliveries (weights, schedule,   *)
(*              outcome of every delivery of that trip), over every        *)
(*              timing of the trip;                                        *)
(*   SpecWeight the same actions over every vector of weight draws, the    *)
(*              inputs of _distribute_weight_lognormal;                    *)
(*   SpecMaint  generate_maintenance: the threshold walk over the          *)
(*              per-vehicle statistics.                                    *)
(*   SpecRoutes generate_routes: the three construction passes;            *)
(*   SpecTrips  generate_trips as a whole (catalogs, guard, loop, insert), *)
(*              run a second time from the same seed;                      *)
(*   SpecGenerators  a call of generate_trips or of generate_deliveries;   *)
(*   SpecMain   main: the stages, the batched inserts and commits, the     *)
(*              validation inside summary, the rollback and the close;     *)
(*   SpecValidate  validate_data_quality over small tables;                *)
(*   SpecEtl    run_etl: the connections, the steps and their failures.    *)
(* Random draws are nondeterministic choices from small sets.  Floats are  *)
(* exact fractions; datetimes are whole minutes, the minute standing for   *)
(* the microsecond to which datetime rounds.                               *)
(***************************************************************************)
EXTENDS Integers, Sequences, FiniteSets, TLC

VARIABLES
    \* ---- generate_deliveries, allocation part
    n_trips,        \* len(trips)
    target,         \* the argument of generate_deliveries
    initial,        \* history: per_trip as drawn at line 495
    per_trip,       \* the numpy array per_trip, 1-based here
    diff,           \* diff (line 499), counted down by the increment loop
    need,           \* need (line 518), counted down by the decrement loop
    i,              \* the cyclic cursor i (0-based as in the source)
    iters,          \* history: iterations of the correction loop so far
    trip_pos,       \* how many trips the emission loop has consumed
    rows,           \* rows: the trip position of every delivery row built
    inserted,       \* number of rows handed to execute_batch and committed
    pc,             \* position inside generate_deliveries
    error,          \* which RuntimeError ended the call, or "none"
    \* ---- one trip and the deliveries built for it
    tape,           \* the random draws this trip and its deliveries consume
    trip,           \* the trip row: departure, arrival, total_weight
    weights,        \* weights: result of _distribute_weight_lognormal
    pkgs,           \* pkg_w of every row built for the trip (1/100 kg)
    sched,          \* scheduled of every row built for the trip (minutes)
    row,            \* the last delivery row built
    t_pc,           \* position inside the per-trip code
    \* ---- generate_maintenance
    m_target,       \* the argument target of generate_maintenance
    stats,          \* stats: one row per vehicle, ascending vehicle_id
    v_pos,          \* how many rows of stats the for loop has consumed
    km_cursor,      \* km_cursor of the vehicle being walked
    next_threshold, \* next_threshold of the vehicle being walked
    m_rows,         \* rows: vehicle_id, m_date and (history) km of each
    exhausted,      \* history: vehicles left with no crossing to emit
    m_inserted,     \* number of rows given to execute_batch and committed
    m_pc,           \* position inside generate_maintenance
    \* ---- generate_routes
    r_count,        \* the argument count of generate_routes
    r_routes,       \* routes: code, origin, destination of the rows built
    r_row,          \* the last row add_route appended, with its drawn fields
    r_pos,          \* how many candidates of the current pass were visited
    r_inserted,     \* counters["routes"]: rows inserted and committed
    r_pc,           \* position inside generate_routes
    \* ---- generate_trips, run twice from the same seed
    g_now,          \* datetime.now() of the run in progress (minutes)
    g_count,        \* the argument count of generate_trips
    g_vehicles,     \* vehicles: the active vehicles fetched
    g_drivers,      \* drivers: the active drivers fetched
    g_routes,       \* routes: the routes fetched
    g_tape,         \* the draws of the seeded generators, in order
    current_dt,     \* current_dt
    g_rows,         \* rows
    g_inserted,     \* rows given to execute_batch and committed
    g_pc,           \* position inside generate_trips
    g_error,        \* the RuntimeError that ended the call, or "none"
    run_no,         \* 1 for the first run, 2 for the run repeated
    first_rows,     \* rows of the first run, kept for the comparison
    \* ---- main
    x_conn,         \* gen.conn: "none", "open" or "closed"
    x_old,          \* rows of an earlier run are still in the tables
    x_table,        \* position in TableOrder of the table being generated
    x_built,        \* len(rows) of every table generated so far
    x_sent,         \* rows of the table handed to execute_batch so far
    x_pending,      \* rows executed in the open transaction, not committed
    x_tables,       \* committed rows of this run in every table
    x_raised,       \* an exception reached the except clause of main
    x_log,          \* history: the calls main has made on gen, in order
    x_summary,      \* validations_passed of generation_summary.json
    x_pc,           \* position inside main
    \* ---- validate_data_quality
    q_db,           \* the tables the queries read
    q_pos,          \* how many entries of validations were evaluated
    q_counts,       \* c of every entry evaluated so far
    q_ok,           \* ok
    q_pc,           \* position inside validate_data_quality
    \* ---- FleetLogixETL.run_etl (05_etl_pipeline.py)
    pg_conn,        \* self.pg_conn: "none", "open" or "closed"
    sf_conn,        \* self.sf_conn: "none", "open" or "closed"
    sf_cursor,      \* cursor of the load function in progress
    metrics,        \* self.metrics
    df_len,         \* len(df), the frame extract_daily_data returned
    tr_len,         \* len(df_transformed)
    etl_raised,     \* an exception reached the except clause of run_etl
    etl_pc          \* position inside run_etl

allocVars == <<n_trips, target, initial, per_trip, diff, need, i, iters,
               trip_pos, rows, inserted, pc, error>>

tripVars == <<tape, trip, weights, pkgs, sched, row, t_pc>>

maintVars == <<m_target, stats, v_pos, km_cursor, next_threshold, m_rows,
               exhausted, m_inserted, m_pc>>

routeVars == <<r_count, r_routes, r_row, r_pos, r_inserted, r_pc>>

genVars == <<g_now, g_count, g_vehicles, g_drivers, g_routes, g_tape,
             current_dt, g_rows, g_inserted, g_pc, g_error, run_no,
             first_rows>>

mainVars == <<x_conn, x_old, x_table, x_built, x_sent, x_pending, x_tables,
              x_raised, x_log, x_summary, x_pc>>

valVars == <<q_db, q_pos, q_counts, q_ok, q_pc>>

etlVars == <<pg_conn, sf_conn, sf_cursor, metrics, df_len, tr_len,
             etl_raised, etl_pc>>

laterVars == <<routeVars, genVars, mainVars, valVars, etlVars>>

earlierVars == <<allocVars, tripVars, maintVars>>

vars == <<allocVars, tripVars, maintVars, laterVars>>

(***************************************************************************)
(* Bounds of the model.                                                    *)
(***************************************************************************)
MaxTrips == 3
MaxOver == 2
MaxVehicles == 2
MaxMaintTarget == 3

(***************************************************************************)
(* Constants of generate_deliveries.                                       *)
(***************************************************************************)
MinPerTrip == 2
MaxPerTrip == 6
batch == 2000

\* choices = np.array([2, 3, 4, 5, 6])
choices == {2, 3, 4, 5, 6}

RECURSIVE SeqSum(_)
\* numpy's .sum() of an integer array
SeqSum(s) == IF s = <<>> THEN 0 ELSE Head(s) + SeqSum(Tail(s))

Min(a, b) == IF a <= b THEN a ELSE b
Max(a, b) == IF a >= b THEN a ELSE b

\* per_trip[i] += 1
Increment(c) == c + 1

DecrementUpward(c) == c + 1
\* per_trip[i] -= 1
Decrement(c) == c - 1

\* capacity = (6 - per_trip).sum()
CapacityUp(pt) == SeqSum([k \in 1..Len(pt) |-> MaxPerTrip - pt[k]])

\* capacity = (per_trip - 2).sum()
CapacityDown(pt) == SeqSum([k \in 1..Len(pt) |-> pt[k] - MinPerTrip])

CanIncNoGuard(c) == TRUE
\* if per_trip[i] < 6
CanInc(c) == c < MaxPerTrip

\* if per_trip[i] > 2
CanDec(c) == c > MinPerTrip

UpInfeasibleNever(cap, d) == FALSE
\* if capacity < diff: raise
UpInfeasible(cap, d) == cap < d

DownInfeasibleNever(cap, nd) == FALSE
\* if capacity < need: raise
DownInfeasible(cap, nd) == cap < nd

\* the targets tried: every feasible one for MaxTrips trips, and some beyond
Targets == 0..(MaxPerTrip * MaxTrips + MaxOver)

\* n copies of the value x
Copies(x, n) == [k \in 1..n |-> x]

(***************************************************************************)
(* Exact fractions <<num, den>> (num >= 0, den > 0, lowest terms) stand    *)
(* for the floats of the source.  A rounding whose exact value is a tie    *)
(* may go either way in binary floating point: both results are kept.      *)
(***************************************************************************)
RECURSIVE GCD(_, _)
GCD(a, b) == IF b = 0 THEN a ELSE GCD(b, a % b)

Frac(a, b) == LET g == GCD(a, b) IN <<a \div g, b \div g>>

FMul(x, y) ==
    LET g1 == GCD(x[1], y[2])
        g2 == GCD(y[1], x[2])
    IN  <<(x[1] \div g1) * (y[1] \div g2), (x[2] \div g2) * (y[2] \div g1)>>

FDiv(x, y) == FMul(x, <<y[2], y[1]>>)

FAdd(x, y) ==
    LET g == GCD(x[2], y[2])
    IN  Frac(x[1] * (y[2] \div g) + y[1] * (x[2] \div g), (x[2] \div g) * y[2])

FLe(x, y) == x[1] * y[2] <= y[1] * x[2]

FLt(x, y) == x[1] * y[2] < y[1] * x[2]

FMax(x, y) == IF FLe(x, y) THEN y ELSE x

RECURSIVE FSum(_)
\* numpy's .sum() of a float array
FSum(s) == IF s = <<>> THEN <<0, 1>> ELSE FAdd(Head(s), FSum(Tail(s)))

\* the integers a correctly rounded conversion of x may produce
RoundChoices(x) ==
    LET q == x[1] \div x[2]
        r == x[1] % x[2]
    IN  IF 2 * r < x[2] THEN {q}
        ELSE IF 2 * r > x[2] THEN {q + 1}
        ELSE {q, q + 1}

\* Python's None
None == <<>>

(***************************************************************************)
(* Constants of generate_routes, generate_trips and of the per-trip part   *)
(* of generate_deliveries.  Times are in minutes, distances in 1/100 km,   *)
(* durations of routes in 1/100 hour, weights in 1/100 kg.                 *)
(***************************************************************************)
MinutesPerHour == 60
CentsPerUnit == 100
BaseSpeed == 70
DefaultGapMinutes == 30
OnTimeSlack == 30
LateMin == 60
LateMax == 180

\* np.clip(raw, 0.5, None)
ClipFloor == <<1, 2>>

ShareAll == <<1, 1>>
\* total_weight * 0.95
Share == <<19, 20>>

\* a short direct route (123 km * 0.95) and a long composite one, in
\* 1/100 km
RouteKm == {123 * 95, 1116 * 105}

\* the extremes of avg_speed = random.uniform(60, 80)
AvgSpeeds == {60, 80}

\* the extremes of realism = random.uniform(0.85, 1.15), in percent
Realisms == {85, 115}

\* departure = current_dt.replace(hour=6..22, minute=0..59): first and last
Departures == {6 * 60, 22 * 60 + 59}

\* (capacity_kg, percent loaded): capacity * random.uniform(0.4, 0.9)
Loads == {<<50, 40>>, <<1250, 80>>}
WeightLoads == {<<50, 40>>, <<91, 50>>, <<1250, 80>>}

\* draws of np.random.lognormal(mean=2.5, sigma=0.6): far below the floor,
\* near the median, far in the upper tail
SmallRaw == {<<1, 4>>, <<25, 2>>}
RawValues == {<<1, 4>>, <<25, 2>>, <<400, 1>>}

\* add_route: the stored row (distance_km, estimated_duration_hours) of a
\* route of km (1/100 km) driven at avg_speed; duration = km / avg_speed + 1
add_route(km, avg_speed) ==
    {[distance_km |-> km, estimated_duration_hours |-> e + CentsPerUnit] :
        e \in RoundChoices(Frac(km, avg_speed))}

Routes == UNION {add_route(km, v) : km \in RouteKm, v \in AvgSpeeds}

\* base_dur = (distance / 70.0) + 1.0, in hours
base_dur(distance) ==
    FAdd(Frac(distance, BaseSpeed * CentsPerUnit), <<1, 1>>)

\* actual_dur = max(est_dur, base_dur) * realism, in hours
actual_dur(route, realism) ==
    FMul(FMax(Frac(route.estimated_duration_hours, CentsPerUnit),
              base_dur(route.distance_km)),
         Frac(realism, CentsPerUnit))

\* timedelta(hours=h) in minutes
HoursToMinutes(h) == RoundChoices(FMul(h, <<MinutesPerHour, 1>>))

ClipNothing(raw) == raw
\* raw = np.clip(raw, 0.5, None)
Clip(raw) == [k \in 1..Len(raw) |-> FMax(raw[k], ClipFloor)]

\* _distribute_weight_lognormal, given the draws raw; total_weight in kg
distribute_weight_lognormal(total_weight, raw) ==
    LET clipped == Clip(raw)
        total == FSum(clipped)
    IN  [k \in 1..Len(raw) |->
            FMul(FDiv(clipped[k], total), FMul(total_weight, Share))]

ceil2(x) ==
    LET y == FMul(x, <<CentsPerUnit, 1>>)
    IN  {IF y[1] % y[2] = 0 THEN y[1] \div y[2] ELSE y[1] \div y[2] + 1}
\* round(float(weights[i]), 2), in 1/100 kg
round2(x) == RoundChoices(FMul(x, <<CentsPerUnit, 1>>))

\* total_hours = max((arrival - departure).total_seconds() / 3600.0, 1.0);
\* gap = total_hours / n; else gap = 0.5.  In minutes.
Gap(departure, arrival, n) ==
    IF arrival # None
       THEN Frac(Max(arrival[1] - departure, MinutesPerHour), n)
       ELSE <<DefaultGapMinutes, 1>>

SlotEnd(idx) == <<idx + 1, 1>>
\* (i + 0.5)
SlotCentre(idx) == <<2 * idx + 1, 2>>

ScheduledOffsetsTruncated(gap, idx) ==
    {FMul(gap, SlotCentre(idx))[1] \div FMul(gap, SlotCentre(idx))[2]}
\* timedelta(hours=gap * (i + 0.5)), in minutes
ScheduledOffsets(gap, idx) == RoundChoices(FMul(gap, SlotCentre(idx)))

\* random.randint(-30, 30): the extremes and the middle
OnTimeOffsets == {-OnTimeSlack, 0, OnTimeSlack}

LateOffsetsEarly == {OnTimeSlack + 1, LateMax}
\* random.randint(60, 180): the extremes
LateOffsets == {LateMin, LateMax}

\* delivered, status and signature of a delivery scheduled at `scheduled`:
\* if arrival: 90% scheduled + randint(-30, 30), 10% scheduled +
\* randint(60, 180), status "delivered", signature random; else pending
DeliveryOutcomes(scheduled, arrival) ==
    IF arrival # None
       THEN {[delivered |-> <<scheduled + minutes>>, status |-> "delivered",
              signature |-> sig] :
                 minutes \in OnTimeOffsets \cup LateOffsets, sig \in BOOLEAN}
       ELSE {[delivered |-> None, status |-> "pending", signature |-> FALSE]}

TripIdle ==
    /\ tape = <<>>
    /\ trip = <<>>
    /\ weights = <<>>
    /\ pkgs = <<>>
    /\ sched = <<>>
    /\ row = <<>>
    /\ t_pc = "idle"

MaintIdle ==
    /\ m_target = 0
    /\ stats = <<>>
    /\ v_pos = 0
    /\ km_cursor = 0
    /\ next_threshold = 0
    /\ m_rows = <<>>
    /\ exhausted = {}
    /\ m_inserted = 0
    /\ m_pc = "idle"

AllocIdle ==
    /\ n_trips = 0
    /\ target = 0
    /\ initial = <<>>
    /\ per_trip = <<>>
    /\ diff = 0
    /\ need = 0
    /\ i = 0
    /\ iters = 0
    /\ trip_pos = 0
    /\ rows = <<>>
    /\ inserted = 0
    /\ pc = "idle"
    /\ error = "none"

RouteIdle ==
    /\ r_count = 0
    /\ r_routes = <<>>
    /\ r_row = <<>>
    /\ r_pos = 0
    /\ r_inserted = 0
    /\ r_pc = "idle"

GenIdle ==
    /\ g_now = 0
    /\ g_count = 0
    /\ g_vehicles = <<>>
    /\ g_drivers = <<>>
    /\ g_routes = <<>>
    /\ g_tape = <<>>
    /\ current_dt = 0
    /\ g_rows = <<>>
    /\ g_inserted = 0
    /\ g_pc = "idle"
    /\ g_error = "none"
    /\ run_no = 0
    /\ first_rows = <<>>

MainIdle ==
    /\ x_conn = "none"
    /\ x_old = FALSE
    /\ x_table = 0
    /\ x_built = <<>>
    /\ x_sent = 0
    /\ x_pending = 0
    /\ x_tables = <<>>
    /\ x_raised = FALSE
    /\ x_log = <<>>
    /\ x_summary = <<>>
    /\ x_pc = "idle"

ValIdle ==
    /\ q_db = <<>>
    /\ q_pos = 0
    /\ q_counts = <<>>
    /\ q_ok = TRUE
    /\ q_pc = "idle"

EtlIdle ==
    /\ pg_conn = "none"
    /\ sf_conn = "none"
    /\ sf_cursor = "none"
    /\ metrics = <<>>
    /\ df_len = 0
    /\ tr_len = 0
    /\ etl_raised = FALSE
    /\ etl_pc = "idle"

LaterIdle == RouteIdle /\ GenIdle /\ MainIdle /\ ValIdle /\ EtlIdle

EarlierIdle == AllocIdle /\ TripIdle /\ MaintIdle

(***************************************************************************)
(* generate_deliveries: allocation, emission, insertion.                   *)
(***************************************************************************)
AllocInit ==
    /\ n_trips \in 0..MaxTrips
    /\ target \in Targets
    /\ initial = <<>>
    /\ per_trip = <<>>
    /\ diff = 0
    /\ need = 0
    /\ i = 0
    /\ iters = 0
    /\ trip_pos = 0
    /\ rows = <<>>
    /\ inserted = 0
    /\ pc = "start"
    /\ error = "none"
    /\ TripIdle
    /\ MaintIdle
    /\ LaterIdle

\* if n_trips == 0: raise RuntimeError("No hay trips ...")
NoTrips ==
    /\ pc = "start"
    /\ n_trips = 0
    /\ pc' = "failed"
    /\ error' = "no_trips"
    /\ UNCHANGED <<n_trips, target, initial, per_trip, diff, need, i, iters,
                   trip_pos, rows, inserted,
                   tripVars, maintVars, laterVars>>

\* per_trip = np.random.choice(choices, size=n_trips, p=probs);
\* diff = target - int(per_trip.sum())
DrawInitial ==
    /\ pc = "start"
    /\ n_trips > 0
    /\ \E draw \in [1..n_trips -> choices] :
          /\ per_trip' = draw
          /\ initial' = draw
          /\ diff' = target - SeqSum(draw)
    /\ pc' = "adjust"
    /\ UNCHANGED <<n_trips, target, need, i, iters, trip_pos, rows, inserted,
                   error,
                   tripVars, maintVars, laterVars>>

\* diff > 0 and capacity < diff: raise
RaiseNoCapacityUp ==
    /\ pc = "adjust"
    /\ diff > 0
    /\ UpInfeasible(CapacityUp(per_trip), diff)
    /\ pc' = "failed"
    /\ error' = "no_capacity_up"
    /\ UNCHANGED <<n_trips, target, initial, per_trip, diff, need, i, iters,
                   trip_pos, rows, inserted,
                   tripVars, maintVars, laterVars>>

\* diff > 0 and the capacity suffices: i = 0, enter the while loop
BeginInc ==
    /\ pc = "adjust"
    /\ diff > 0
    /\ ~UpInfeasible(CapacityUp(per_trip), diff)
    /\ i' = 0
    /\ pc' = "inc"
    /\ UNCHANGED <<n_trips, target, initial, per_trip, diff, need, iters,
                   trip_pos, rows, inserted, error,
                   tripVars, maintVars, laterVars>>

\* one iteration of: while diff > 0
IncStep ==
    /\ pc = "inc"
    /\ diff > 0
    /\ IF CanInc(per_trip[i + 1])
          THEN /\ per_trip' = [per_trip EXCEPT ![i + 1] = Increment(@)]
               /\ diff' = diff - 1
          ELSE UNCHANGED <<per_trip, diff>>
    /\ i' = (i + 1) % n_trips
    /\ iters' = iters + 1
    /\ pc' = IF diff' > 0 THEN "inc" ELSE "emit"
    /\ UNCHANGED <<n_trips, target, initial, need, trip_pos, rows, inserted,
                   error,
                   tripVars, maintVars, laterVars>>

\* diff < 0 and capacity < need: raise
RaiseNoCapacityDown ==
    /\ pc = "adjust"
    /\ diff < 0
    /\ DownInfeasible(CapacityDown(per_trip), -diff)
    /\ need' = -diff
    /\ pc' = "failed"
    /\ error' = "no_capacity_down"
    /\ UNCHANGED <<n_trips, target, initial, per_trip, diff, i, iters,
                   trip_pos, rows, inserted,
                   tripVars, maintVars, laterVars>>

\* diff < 0 and the capacity suffices: need = -diff, i = 0, enter the loop
BeginDec ==
    /\ pc = "adjust"
    /\ diff < 0
    /\ ~DownInfeasible(CapacityDown(per_trip), -diff)
    /\ need' = -diff
    /\ i' = 0
    /\ pc' = "dec"
    /\ UNCHANGED <<n_trips, target, initial, per_trip, diff, iters, trip_pos,
                   rows, inserted, error,
                   tripVars, maintVars, laterVars>>

\* one iteration of: while need > 0
DecStep ==
    /\ pc = "dec"
    /\ need > 0
    /\ IF CanDec(per_trip[i + 1])
          THEN /\ per_trip' = [per_trip EXCEPT ![i + 1] = Decrement(@)]
               /\ need' = need - 1
          ELSE UNCHANGED <<per_trip, need>>
    /\ i' = (i + 1) % n_trips
    /\ iters' = iters + 1
    /\ pc' = IF need' > 0 THEN "dec" ELSE "emit"
    /\ UNCHANGED <<n_trips, target, initial, diff, trip_pos, rows, inserted,
                   error,
                   tripVars, maintVars, laterVars>>

\* diff == 0: neither branch is taken
NoAdjust ==
    /\ pc = "adjust"
    /\ diff = 0
    /\ pc' = "emit"
    /\ UNCHANGED <<n_trips, target, initial, per_trip, diff, need, i, iters,
                   trip_pos, rows, inserted, error,
                   tripVars, maintVars, laterVars>>

\* one iteration of: for (trip...), n in zip(trips, per_trip), with its
\* inner loop for i in range(int(n)): rows.append(...)
EmitTrip ==
    /\ pc = "emit"
    /\ trip_pos < n_trips
    /\ rows' = rows \o Copies(trip_pos + 1, per_trip[trip_pos + 1])
    /\ trip_pos' = trip_pos + 1
    /\ pc' = IF trip_pos' < n_trips THEN "emit" ELSE "insert"
    /\ UNCHANGED <<n_trips, target, initial, per_trip, diff, need, i, iters,
                   inserted, error,
                   tripVars, maintVars, laterVars>>

\* one iteration of: for i in range(0, len(rows), batch):
\*     execute_batch(...); self.conn.commit()
InsertBatch ==
    /\ pc = "insert"
    /\ inserted < Len(rows)
    /\ inserted' = Min(inserted + batch, Len(rows))
    /\ pc' = IF inserted' < Len(rows) THEN "insert" ELSE "done"
    /\ UNCHANGED <<n_trips, target, initial, per_trip, diff, need, i, iters,
                   trip_pos, rows, error,
                   tripVars, maintVars, laterVars>>

AllocNext ==
    \/ NoTrips
    \/ DrawInitial
    \/ RaiseNoCapacityUp
    \/ BeginInc
    \/ IncStep
    \/ RaiseNoCapacityDown
    \/ BeginDec
    \/ DecStep
    \/ NoAdjust
    \/ EmitTrip
    \/ InsertBatch

SpecAlloc == AllocInit /\ [][AllocNext]_vars

(***************************************************************************)
(* One trip of generate_trips and the deliveries generate_deliveries       *)
(* builds for it.                                                          *)
(***************************************************************************)
Tapes(routes, realisms, departures, completions, loads, counts, raws) ==
    UNION {[route : routes, realism : realisms, departure : departures,
            completed : completions, load : loads, n : {n},
            raw : raws[n]] : n \in counts}

\* n draws alike but the first
TripRaws ==
    [n \in 1..MaxPerTrip |->
        {[k \in 1..n |-> IF k = 1 THEN r ELSE <<25, 2>>] : r \in SmallRaw}]

\* every vector of n draws
WeightRaws == [n \in 1..MaxPerTrip |-> [1..n -> RawValues]]

\* the trips of SpecTrip: every timing, few weights
TripTapes ==
    Tapes(Routes, Realisms, Departures, BOOLEAN, Loads,
          MinPerTrip..MaxPerTrip, TripRaws)

\* the trips of SpecWeight: one timing, every weight
WeightTapes ==
    Tapes({CHOOSE r \in Routes : TRUE}, {CentsPerUnit}, {6 * 60}, {FALSE},
          WeightLoads, 1..MaxPerTrip, WeightRaws)

\* the body of the loop of generate_trips: departure, arrival, total_weight
\* and status of one trip
GenerateTrip ==
    /\ t_pc = "trip"
    /\ \E dur \in HoursToMinutes(actual_dur(tape.route, tape.realism)) :
          trip' = [departure |-> tape.departure,
                   arrival |-> IF tape.completed
                                  THEN <<tape.departure + dur>> ELSE None,
                   total_weight |-> tape.load[1] * tape.load[2],
                   status |-> IF tape.completed
                                 THEN "completed" ELSE "in_progress"]
    /\ t_pc' = "weights"
    /\ UNCHANGED <<tape, weights, pkgs, sched, row, allocVars, maintVars, laterVars>>

\* total_weight = float(total_weight);
\* weights = self._distribute_weight_lognormal(total_weight, int(n))
DistributeWeights ==
    /\ t_pc = "weights"
    /\ weights' = distribute_weight_lognormal(
                      Frac(trip.total_weight, CentsPerUnit), tape.raw)
    /\ t_pc' = "emit"
    /\ UNCHANGED <<tape, trip, pkgs, sched, row, allocVars, maintVars, laterVars>>

\* one iteration of: for i in range(int(n)), up to rows.append(...)
EmitDelivery ==
    /\ t_pc = "emit"
    /\ Len(sched) < tape.n
    /\ LET idx == Len(sched)
           gap == Gap(trip.departure, trip.arrival, tape.n)
       IN  \E pkg_w \in round2(weights[idx + 1]),
              off \in ScheduledOffsets(gap, idx) :
              \E outcome \in DeliveryOutcomes(trip.departure + off,
                                              trip.arrival) :
                 /\ pkgs' = Append(pkgs, pkg_w)
                 /\ sched' = Append(sched, trip.departure + off)
                 /\ row' = [pkg_w |-> pkg_w,
                            scheduled |-> trip.departure + off,
                            delivered |-> outcome.delivered,
                            status |-> outcome.status,
                            signature |-> outcome.signature]
    /\ t_pc' = IF Len(sched') < tape.n THEN "emit" ELSE "end"
    /\ UNCHANGED <<tape, trip, weights, allocVars, maintVars, laterVars>>

TripNext ==
    \/ GenerateTrip
    \/ DistributeWeights
    \/ EmitDelivery

TripInit ==
    /\ tape \in TripTapes
    /\ trip = <<>>
    /\ weights = <<>>
    /\ pkgs = <<>>
    /\ sched = <<>>
    /\ row = <<>>
    /\ t_pc = "trip"
    /\ AllocIdle
    /\ MaintIdle
    /\ LaterIdle

WeightInit ==
    /\ tape \in WeightTapes
    /\ trip = <<>>
    /\ weights = <<>>
    /\ pkgs = <<>>
    /\ sched = <<>>
    /\ row = <<>>
    /\ t_pc = "trip"
    /\ AllocIdle
    /\ MaintIdle
    /\ LaterIdle

SpecTrip == TripInit /\ [][TripNext]_vars

SpecWeight == WeightInit /\ [][TripNext]_vars

(***************************************************************************)
(* generate_maintenance.  A timestamp is <<day, minute of the day>>, a     *)
(* date is a day.  The type, cost, next date and performer of a row are    *)
(* drawn independently of everything modelled here and are left out.       *)
(***************************************************************************)
ThresholdBase == 10000
ThresholdJitter == 300

\* the extremes of random.uniform(-300, 300)
Jitters == {-ThresholdJitter, ThresholdJitter}

\* 10000 + random.uniform(-300, 300)
Thresholds == {ThresholdBase + j : j \in Jitters}

\* (first_trip, last_trip) of a vehicle with trips: within one day, less
\* than a day across midnight, more than a day, several days
TripSpans ==
    {<<<<0, 480>>, <<0, 1200>>>>, <<<<0, 1380>>, <<1, 60>>>>,
     <<<<0, 600>>, <<2, 480>>>>, <<<<0, 480>>, <<3, 600>>>>}

\* total_km of a vehicle with trips: below the first threshold, on the
\* lowest first threshold, within reach of two thresholds
KmTotals == {9699, 9700, 20000}

\* the rows the query can return for one vehicle: LEFT JOIN gives a vehicle
\* without trips first_trip = last_trip = NULL and total_km = 0
VehicleStats ==
    {[first_trip |-> None, last_trip |-> None, total_km |-> 0]}
    \cup {[first_trip |-> <<sp[1]>>, last_trip |-> <<sp[2]>>,
           total_km |-> km] : sp \in TripSpans, km \in KmTotals}

\* (last_trip - first_trip).days
DaysBetween(first, last) ==
    last[1] - first[1] - (IF last[2] < first[2] THEN 1 ELSE 0)

\* span_days = max((last_trip - first_trip).days, 1);
\* frac = km_cursor / total_km; day_offset = int(frac * span_days);
\* m_date = (first_trip + timedelta(days=day_offset)).date()
m_date(first, last, km, total_km) ==
    LET span_days == Max(DaysBetween(first, last), 1)
        day_offset == (km * span_days) \div total_km
    IN  first[1] + day_offset

\* if not first_trip or not last_trip or total_km <= 0: continue
Skipped(st) ==
    st.first_trip = None \/ st.last_trip = None \/ st.total_km <= 0

WalkContinuesStrictly(km, threshold, total_km, n_rows, tgt) ==
    (km + threshold) < total_km /\ n_rows < tgt

WalkContinuesPastTotal(km, threshold, total_km, n_rows, tgt) ==
    km <= total_km /\ n_rows < tgt
\* while (km_cursor + next_threshold) <= total_km and len(rows) < target
WalkContinues(km, threshold, total_km, n_rows, tgt) ==
    (km + threshold) <= total_km /\ n_rows < tgt

TargetReachedEarly(n_rows, tgt) == n_rows + 1 >= tgt
\* if len(rows) >= target: break
TargetReached(n_rows, tgt) == n_rows >= tgt

MaintInit ==
    /\ m_target \in 0..MaxMaintTarget
    /\ stats \in UNION {[1..n -> VehicleStats] : n \in 0..MaxVehicles}
    /\ v_pos = 0
    /\ km_cursor = 0
    /\ next_threshold = 0
    /\ m_rows = <<>>
    /\ exhausted = {}
    /\ m_inserted = 0
    /\ m_pc = "for"
    /\ AllocIdle
    /\ TripIdle
    /\ LaterIdle

\* for ... in stats, on a vehicle the guard skips: continue
SkipVehicle ==
    /\ m_pc = "for"
    /\ v_pos < Len(stats)
    /\ Skipped(stats[v_pos + 1])
    /\ v_pos' = v_pos + 1
    /\ exhausted' = exhausted \cup {v_pos + 1}
    /\ UNCHANGED <<m_target, stats, km_cursor, next_threshold, m_rows,
                   m_inserted, m_pc, allocVars, tripVars, laterVars>>

\* for ... in stats, on a vehicle with trips: km_cursor = 0.0;
\* next_threshold = 10000 + random.uniform(-300, 300)
BeginVehicle ==
    /\ m_pc = "for"
    /\ v_pos < Len(stats)
    /\ ~Skipped(stats[v_pos + 1])
    /\ km_cursor' = 0
    /\ next_threshold' \in Thresholds
    /\ m_pc' = "while"
    /\ UNCHANGED <<m_target, stats, v_pos, m_rows, exhausted, m_inserted,
                   allocVars, tripVars, laterVars>>

\* one iteration of the while loop, with the break that may end it
WalkStep ==
    /\ m_pc = "while"
    /\ LET st == stats[v_pos + 1]
       IN  /\ WalkContinues(km_cursor, next_threshold, st.total_km,
                            Len(m_rows), m_target)
           /\ km_cursor' = km_cursor + next_threshold
           /\ next_threshold' \in Thresholds
           /\ m_rows' = Append(m_rows,
                  [vehicle_id |-> v_pos + 1,
                   m_date |-> m_date(st.first_trip[1], st.last_trip[1],
                                     km_cursor', st.total_km),
                   km |-> km_cursor'])
           /\ IF TargetReached(Len(m_rows'), m_target)
                 THEN /\ m_pc' = "insert"
                      /\ exhausted' =
                            IF km_cursor' + next_threshold' > st.total_km
                               THEN exhausted \cup {v_pos + 1}
                               ELSE exhausted
                 ELSE UNCHANGED <<m_pc, exhausted>>
    /\ UNCHANGED <<m_target, stats, v_pos, m_inserted, allocVars, tripVars, laterVars>>

\* the while condition fails; if len(rows) >= target: break, else the next
\* vehicle
WalkExit ==
    /\ m_pc = "while"
    /\ LET st == stats[v_pos + 1]
       IN  /\ ~WalkContinues(km_cursor, next_threshold, st.total_km,
                             Len(m_rows), m_target)
           /\ exhausted' = IF km_cursor + next_threshold > st.total_km
                              THEN exhausted \cup {v_pos + 1}
                              ELSE exhausted
    /\ IF TargetReached(Len(m_rows), m_target)
          THEN m_pc' = "insert" /\ UNCHANGED v_pos
          ELSE m_pc' = "for" /\ v_pos' = v_pos + 1
    /\ UNCHANGED <<m_target, stats, km_cursor, next_threshold, m_rows,
                   m_inserted, allocVars, tripVars, laterVars>>

\* stats is used up
EndFor ==
    /\ m_pc = "for"
    /\ v_pos = Len(stats)
    /\ m_pc' = "insert"
    /\ UNCHANGED <<m_target, stats, v_pos, km_cursor, next_threshold, m_rows,
                   exhausted, m_inserted, allocVars, tripVars, laterVars>>

\* execute_batch(self.cur, q, rows[:target]); self.conn.commit()
InsertMaintenance ==
    /\ m_pc = "insert"
    /\ m_inserted' = Len(SubSeq(m_rows, 1, Min(m_target, Len(m_rows))))
    /\ m_pc' = "done"
    /\ UNCHANGED <<m_target, stats, v_pos, km_cursor, next_threshold, m_rows,
                   exhausted, allocVars, tripVars, laterVars>>

MaintNext ==
    \/ SkipVehicle
    \/ BeginVehicle
    \/ WalkStep
    \/ WalkExit
    \/ EndFor
    \/ InsertMaintenance

SpecMaint == MaintInit /\ [][MaintNext]_vars

(***************************************************************************)
(* Properties of the allocation (SpecAlloc).                               *)
(***************************************************************************)
Feasible ==
    /\ n_trips >= 1
    /\ 2 * n_trips <= target
    /\ target <= 6 * n_trips

\* number of rows built for the trip at position k
RowsOf(k) == Cardinality({r \in 1..Len(rows) : rows[r] = k})

\* C1: with N >= 1 trips and 2N <= target <= 6N, whatever the initial draw,
\* the call does not fail, the counts after the correction step are each
\* in [2,6] and sum to target, every trip gets exactly its count of rows,
\* and exactly target rows are built and inserted.
C1_ExactAllocation ==
    Feasible =>
        /\ pc # "failed"
        /\ pc \in {"emit", "insert", "done"} =>
              /\ \A k \in 1..n_trips : per_trip[k] >= 2 /\ per_trip[k] <= 6
              /\ SeqSum(per_trip) = target
        /\ pc \in {"insert", "done"} =>
              /\ Len(rows) = target
              /\ \A k \in 1..n_trips : RowsOf(k) = per_trip[k]
        /\ pc = "done" => inserted = target

\* a feasible call that needed the correction step and inserted its rows
C1_Witness ==
    /\ Feasible
    /\ pc = "done"
    /\ initial # per_trip
    /\ n_trips = MaxTrips
    /\ inserted = target

Infeasible ==
    /\ n_trips >= 1
    /\ (target > 6 * n_trips \/ target < 2 * n_trips)

\* C2: with N >= 1 trips and target > 6N or target < 2N, whatever the
\* initial draw, the call ends in the allocation-infeasible error, and
\* until then no count has been changed, no loop iteration has run and no
\* row has been built or inserted.
C2_InfeasibleFailsClean ==
    Infeasible =>
        /\ pc \in {"start", "adjust", "failed"}
        /\ pc = "failed" =>
              error = IF target > 6 * n_trips
                         THEN "no_capacity_up" ELSE "no_capacity_down"
        /\ per_trip = initial
        /\ iters = 0
        /\ rows = <<>>
        /\ inserted = 0

\* the failure for a target above 6N, after a draw
C2_Witness ==
    /\ pc = "failed"
    /\ n_trips >= 2
    /\ target > 6 * n_trips
    /\ error = "no_capacity_up"
    /\ Len(initial) = n_trips

(***************************************************************************)
(* Properties of the weights (SpecWeight).                                 *)
(***************************************************************************)
\* C3 as claimed: for every trip (of 2 to 6 deliveries) the sum of the
\* stored package weights (each rounded to 2 decimals) is at most 0.95
\* times the trip's total weight.
C3_SumAtMost95Percent ==
    (t_pc = "end" /\ tape.n >= 2) =>
        100 * SeqSum(pkgs) <= 95 * trip.total_weight

\* C3 as amended: for every trip (of 2 to 6 deliveries) the sum of the
\* stored package weights is at most 0.95 times the trip's total weight
\* plus 0.005 kg for each of its deliveries.
C3_SumWithinRounding ==
    (t_pc = "end" /\ tape.n >= 2) =>
        100 * SeqSum(pkgs) <= 95 * trip.total_weight + 50 * tape.n

\* a trip whose stored weights sum to more than 0.95 of its total weight
C3_Witness ==
    /\ t_pc = "end"
    /\ tape.n >= 2
    /\ 100 * SeqSum(pkgs) > 95 * trip.total_weight

\* the draw k of the tape, clamped to at least 0.5
Clamped(k) == IF FLt(tape.raw[k], <<1, 2>>) THEN <<1, 2>> ELSE tape.raw[k]

\* C4: for every total Q > 0, n >= 1 and n draws,
\* _distribute_weight_lognormal returns n values, all positive, that sum to
\* 0.95 * Q and stand to each other as the draws clamped to at least 0.5.
C4_DistributeContract ==
    t_pc \in {"emit", "end"} =>
        /\ Len(weights) = tape.n
        /\ \A k \in 1..tape.n : weights[k][1] > 0
        /\ FSum(weights) = Frac(95 * trip.total_weight, 100 * 100)
        /\ \A j, k \in 1..tape.n :
              FMul(weights[j], Clamped(k)) = FMul(weights[k], Clamped(j))

\* a distribution of several draws, one of them below the floor
C4_Witness ==
    /\ t_pc = "emit"
    /\ tape.n >= 3
    /\ \E k \in 1..tape.n : FLt(tape.raw[k], <<1, 2>>)
    /\ \E k \in 1..tape.n : FLt(<<1, 2>>, tape.raw[k])
    /\ Len(weights) = tape.n

\* C5: for a trip of total weight 1000 with 4 deliveries every package
\* weight, after the clamp and the rescaling, is at least 0.5.
C5_EveryPackageAtLeastHalf ==
    (t_pc \in {"emit", "end"} /\ trip.total_weight = 1000 * 100
        /\ tape.n = 4) =>
        \A k \in 1..4 : FLe(<<1, 2>>, weights[k])

(***************************************************************************)
(* Properties of the schedule and the outcome (SpecTrip).                  *)
(***************************************************************************)
\* C6: every scheduled timestamp of a completed trip is in
\* [departure, arrival); every one of an in-progress trip with n deliveries
\* is in [departure, departure + n * 30 minutes).
C6_ScheduledInsideWindow ==
    \A k \in 1..Len(sched) :
        /\ trip.departure <= sched[k]
        /\ IF trip.arrival # None
              THEN sched[k] < trip.arrival[1]
              ELSE sched[k] < trip.departure + tape.n * 30

\* the last delivery of a completed trip of 6 deliveries has been scheduled
C6_Witness ==
    /\ t_pc = "end"
    /\ trip.arrival # None
    /\ Len(sched) = 6
    /\ sched[6] > trip.departure

\* C7: a delivery of a trip with an arrival is "delivered" with a delivered
\* timestamp within scheduled +- 30 minutes or within scheduled + 60..180
\* minutes; a delivery of a trip without arrival has no delivered
\* timestamp, status "pending" and signature false.
C7_DeliveryOutcome ==
    row # <<>> =>
        IF trip.arrival # None
           THEN /\ row.status = "delivered"
                /\ row.delivered # None
                /\ LET late == row.delivered[1] - row.scheduled
                   IN  \/ (-30 <= late /\ late <= 30)
                       \/ (60 <= late /\ late <= 180)
           ELSE /\ row.delivered = None
                /\ row.status = "pending"
                /\ row.signature = FALSE

\* a late delivery of a completed trip
C7_Witness ==
    /\ row # <<>>
    /\ trip.arrival # None
    /\ row.status = "delivered"
    /\ row.delivered[1] - row.scheduled = 60

(***************************************************************************)
(* Properties of the maintenance walk (SpecMaint).                         *)
(***************************************************************************)
\* C8: the date of every maintenance row lies between the date of the
\* first trip and the date of the last trip of its vehicle.
C8_DateInsideTripSpan ==
    \A r \in 1..Len(m_rows) :
        LET st == stats[m_rows[r].vehicle_id]
        IN  /\ st.first_trip[1][1] <= m_rows[r].m_date
            /\ m_rows[r].m_date <= st.last_trip[1][1]

\* the cumulative distance of the event before row r of the same vehicle,
\* 0 for the first
PrevKm(r) ==
    IF r > 1 /\ m_rows[r - 1].vehicle_id = m_rows[r].vehicle_id
       THEN m_rows[r - 1].km ELSE 0

\* C9: the cumulative distances of the events of a vehicle start in
\* [9700, 10300], grow by a value in [9700, 10300] from one event to the
\* next and never exceed the vehicle's total distance; a vehicle without
\* trips, or with a total distance of zero or below 9700, has no event.
C9_ThresholdSequence ==
    /\ \A r \in 1..Len(m_rows) :
          /\ m_rows[r].km - PrevKm(r) >= 9700
          /\ m_rows[r].km - PrevKm(r) <= 10300
          /\ m_rows[r].km <= stats[m_rows[r].vehicle_id].total_km
          /\ r > 1 => m_rows[r - 1].vehicle_id <= m_rows[r].vehicle_id
    /\ \A k \in 1..Len(stats) :
          (stats[k].first_trip = None \/ stats[k].total_km < 9700) =>
              \A r \in 1..Len(m_rows) : m_rows[r].vehicle_id # k

\* a vehicle with two events, the second one on its total distance
C9_Witness ==
    \E r \in 2..Len(m_rows) :
        /\ m_rows[r - 1].vehicle_id = m_rows[r].vehicle_id
        /\ m_rows[r].km = stats[m_rows[r].vehicle_id].total_km

\* C10: generate_maintenance never inserts more than target rows, and it
\* inserts fewer than target only when every vehicle has been left with no
\* further threshold within its total distance.
C10_TargetIsACap ==
    /\ Len(m_rows) <= m_target
    /\ m_pc = "done" =>
          /\ m_inserted = Len(m_rows)
          /\ m_inserted < m_target => exhausted = 1..Len(stats)

\* a walk stopped by the target while a later vehicle still had crossings
C10_Witness ==
    /\ m_pc = "done"
    /\ m_target >= 2
    /\ m_inserted = m_target
    /\ Len(stats) = 2
    /\ ~Skipped(stats[2])
    /\ stats[2].total_km >= 10300
    /\ 2 \notin exhausted

\* a walk that ran out of crossings below the target
C10_WitnessShort ==
    /\ m_pc = "done"
    /\ m_inserted >= 1
    /\ m_inserted < m_target

(***************************************************************************)
(* generate_routes: three construction passes over CITIES, the cut to      *)
(* count, one insert.                                                      *)
(***************************************************************************)
CITIES == <<"Bogota", "Medellin", "Villavicencio", "Barranquilla",
            "Bucaramanga">>

\* the order sorted() puts the city names in (code point order)
SortRank ==
    [c \in {CITIES[k] : k \in 1..Len(CITIES)} |->
        CASE c = "Barranquilla" -> 1
          [] c = "Bogota" -> 2
          [] c = "Bucaramanga" -> 3
          [] c = "Medellin" -> 4
          [] c = "Villavicencio" -> 5]

\* the dictionary DISTANCES: key and km
DISTANCES ==
    {<<<<"Bogota", "Medellin">>, 443>>,
     <<<<"Bogota", "Villavicencio">>, 123>>,
     <<<<"Bogota", "Barranquilla">>, 1001>>,
     <<<<"Bogota", "Bucaramanga">>, 409>>,
     <<<<"Medellin", "Bucaramanga">>, 388>>,
     <<<<"Medellin", "Barranquilla">>, 703>>,
     <<<<"Medellin", "Villavicencio">>, 518>>,
     <<<<"Villavicencio", "Barranquilla">>, 1116>>,
     <<<<"Bucaramanga", "Barranquilla">>, 584>>,
     <<<<"Villavicencio", "Bucaramanga">>, 518>>}

\* DISTANCES.get(key, 500.0)
DefaultDistance == 500

\* _get_distance(a, b), in km
get_distance(a, b) ==
    IF a = b
       THEN 0
       ELSE LET key == IF SortRank[a] <= SortRank[b] THEN <<a, b>>
                                                     ELSE <<b, a>>
                hits == {e \in DISTANCES : e[1] = key}
            IN  IF hits = {} THEN DefaultDistance
                             ELSE (CHOOSE e \in hits : TRUE)[2]

VARIANTS_PER_PAIR == 2

\* the tuples of n cities in the order the nested for loops visit them
CityTuples(n) ==
    LET m == Len(CITIES)
        Pow(k) == IF k = 0 THEN 1
                  ELSE IF k = 1 THEN m
                  ELSE IF k = 2 THEN m * m
                  ELSE IF k = 3 THEN m * m * m
                  ELSE m * m * m * m
    IN  [k \in 1..Pow(n) |->
            [j \in 1..n |-> CITIES[(((k - 1) \div Pow(n - j)) % m) + 1]]]

\* o == d: continue; base_km <= 0: continue
SimplePair(t) == t[1] # t[2] /\ get_distance(t[1], t[2]) > 0

\* b == a: continue; c in (a, b): continue
ChainABC(t) == t[2] # t[1] /\ t[3] \notin {t[1], t[2]}

\* the same, and d in (a, b, c): continue
ChainABCD(t) == ChainABC(t) /\ t[4] \notin {t[1], t[2], t[3]}

\* pass 1: every ordered pair, VARIANTS_PER_PAIR times in a row
SimpleCandidates ==
    LET pairs == SelectSeq(CityTuples(2), SimplePair)
    IN  [k \in 1..(VARIANTS_PER_PAIR * Len(pairs)) |->
            pairs[(k - 1) \div VARIANTS_PER_PAIR + 1]]

\* pass 2
ABCCandidates == SelectSeq(CityTuples(3), ChainABC)

\* pass 3
ABCDCandidates == SelectSeq(CityTuples(4), ChainABCD)

\* the sum of the legs of a chain of cities, in km
RECURSIVE ChainKm(_)
ChainKm(t) ==
    IF Len(t) < 2 THEN 0
    ELSE get_distance(t[1], t[2]) + ChainKm(Tail(t))

\* the extremes of random.uniform(0.95, 1.05), in 1/100
SimpleFactors == {95, 105}

\* the extremes of random.uniform(0.97, 1.03), in 1/100
ChainFactors == {97, 103}

RECURSIVE Digits(_)
\* str(n): the decimal digits of n
Digits(n) == IF n < 10 THEN <<n>> ELSE Append(Digits(n \div 10), n % 10)

RECURSIVE zfill(_, _)
\* s.zfill(width)
zfill(s, width) == IF Len(s) >= width THEN s ELSE zfill(<<0>> \o s, width)

RcodeWidth == 3

\* rcode = f"R{str(len(routes) + 1).zfill(3)}"
rcode(n_routes) ==
    [prefix |-> "R", digits |-> zfill(Digits(n_routes + 1), RcodeWidth)]

\* _toll_cost_from_distance(km), km in 1/100 km
toll_cost_from_distance(km) == (km \div (100 * CentsPerUnit)) * 15000

\* the requested counts: around the end of every pass
RouteCounts == {0, 1, 39, 40, 41, 50, 99, 100, 101, 219, 220, 221}

RoutesInit ==
    /\ r_count \in RouteCounts
    /\ r_routes = <<>>
    /\ r_row = <<>>
    /\ r_pos = 0
    /\ r_inserted = 0
    /\ r_pc = "simple"
    /\ EarlierIdle
    /\ EtlIdle
    /\ GenIdle
    /\ MainIdle
    /\ ValIdle

\* add_route(origin, destination, km) with km = base * factor
AppendRoute(chain, factors) ==
    \E f \in factors, v \in AvgSpeeds :
       \E r \in add_route(ChainKm(chain) * f, v) :
          /\ r_routes' = Append(r_routes,
                 [route_code |-> rcode(Len(r_routes)),
                  origin_city |-> chain[1],
                  destination_city |-> chain[Len(chain)]])
          /\ r_row' = [route_code |-> rcode(Len(r_routes)),
                       origin_city |-> chain[1],
                       destination_city |-> chain[Len(chain)],
                       distance_km |-> r.distance_km,
                       estimated_duration_hours |->
                           r.estimated_duration_hours,
                       toll_cost |-> toll_cost_from_distance(r.distance_km)]

\* pass 1, one variant of one ordered pair
AddSimple ==
    /\ r_pc = "simple"
    /\ r_pos < Len(SimpleCandidates)
    /\ Len(r_routes) < r_count
    /\ AppendRoute(SimpleCandidates[r_pos + 1], SimpleFactors)
    /\ r_pos' = r_pos + 1
    /\ UNCHANGED <<r_count, r_inserted, r_pc, earlierVars, etlVars, genVars, mainVars,
                   valVars>>

\* pass 1 is over: the loops are used up, or len(routes) >= count breaks
\* them
EndSimple ==
    /\ r_pc = "simple"
    /\ r_pos = Len(SimpleCandidates) \/ Len(r_routes) >= r_count
    /\ r_pos' = 0
    /\ r_pc' = "abc"
    /\ UNCHANGED <<r_count, r_routes, r_row, r_inserted, earlierVars, etlVars, genVars,
                   mainVars, valVars>>

\* pass 2, one chain A-B-C (entered only if len(routes) < count)
AddABC ==
    /\ r_pc = "abc"
    /\ r_pos < Len(ABCCandidates)
    /\ Len(r_routes) < r_count
    /\ AppendRoute(ABCCandidates[r_pos + 1], ChainFactors)
    /\ r_pos' = r_pos + 1
    /\ UNCHANGED <<r_count, r_inserted, r_pc, earlierVars, etlVars, genVars, mainVars,
                   valVars>>

EndABC ==
    /\ r_pc = "abc"
    /\ r_pos = Len(ABCCandidates) \/ Len(r_routes) >= r_count
    /\ r_pos' = 0
    /\ r_pc' = "abcd"
    /\ UNCHANGED <<r_count, r_routes, r_row, r_inserted, earlierVars, etlVars, genVars,
                   mainVars, valVars>>

\* pass 3, one chain A-B-C-D (entered only if len(routes) < count)
AddABCD ==
    /\ r_pc = "abcd"
    /\ r_pos < Len(ABCDCandidates)
    /\ Len(r_routes) < r_count
    /\ AppendRoute(ABCDCandidates[r_pos + 1], ChainFactors)
    /\ r_pos' = r_pos + 1
    /\ UNCHANGED <<r_count, r_inserted, r_pc, earlierVars, etlVars, genVars, mainVars,
                   valVars>>

EndABCD ==
    /\ r_pc = "abcd"
    /\ r_pos = Len(ABCDCandidates) \/ Len(r_routes) >= r_count
    /\ r_pc' = "insert"
    /\ UNCHANGED <<r_count, r_routes, r_row, r_pos, r_inserted, earlierVars, etlVars,
                   genVars, mainVars, valVars>>

\* routes = routes[:count]; execute_batch; commit;
\* counters["routes"] = len(routes)
InsertRoutes ==
    /\ r_pc = "insert"
    /\ r_routes' = SubSeq(r_routes, 1, Min(r_count, Len(r_routes)))
    /\ r_inserted' = Len(r_routes')
    /\ r_pc' = "done"
    /\ UNCHANGED <<r_count, r_row, r_pos, earlierVars, etlVars, genVars, mainVars,
                   valVars>>

RoutesNext ==
    \/ AddSimple
    \/ EndSimple
    \/ AddABC
    \/ EndABC
    \/ AddABCD
    \/ EndABCD
    \/ InsertRoutes

SpecRoutes == RoutesInit /\ [][RoutesNext]_vars

(***************************************************************************)
(* generate_trips, and the same call repeated by a second run of the       *)
(* script: random.seed(SEED) and np.random.seed(SEED) make the second run  *)
(* consume the draws of the first, at its own datetime.now().  With the    *)
(* few trips of the model the step between trips is months, so every trip  *)
(* has arrived long before now; fuel_consumed_liters, which no other       *)
(* column depends on, is left out of the row.                              *)
(***************************************************************************)
MaxCount == 2

MinutesPerDay == 1440
DaysBack == 730
FirstHour == 6
LastHour == 22

\* datetime.now() of the first run: day 1000 at 10:30
FirstNow == 1000 * MinutesPerDay + 630

\* how much later the second run starts: at once, the same day, a day later
RerunDelays == {0, 360, MinutesPerDay}

hoursUpTo23 == FirstHour..(LastHour + 1)
\* hours = list(range(6, 23))
hours == FirstHour..LastHour

\* weights.get(h, 1)
HourWeight(h) ==
    CASE h = 6 -> 4 [] h = 7 -> 6 [] h = 8 -> 10 [] h = 9 -> 10
      [] h = 10 -> 8 [] h = 11 -> 6 [] h = 12 -> 5 [] h = 13 -> 5
      [] h = 14 -> 9 [] h = 15 -> 9 [] h = 16 -> 8 [] h = 17 -> 6
      [] h = 18 -> 6 [] h = 19 -> 4 [] h = 20 -> 2 [] h = 21 -> 2
      [] h = 22 -> 1 [] OTHER -> 1

RECURSIVE SetSum(_, _)
\* the sum of f[x] over the set S
SetSum(f, S) ==
    IF S = {} THEN 0
    ELSE LET x == CHOOSE y \in S : TRUE IN f[x] + SetSum(f, S \ {x})

\* _hourly_distribution_full_24(): probs / probs.sum() placed in zeros(24)
hourly_distribution_full_24 ==
    LET w == [h \in hours |-> HourWeight(h)]
        total == SetSum(w, hours)
    IN  [h \in 0..23 |-> IF h \in hours THEN Frac(w[h], total) ELSE <<0, 1>>]

\* the values np.random.choice(range(24), p=p_hour) can return
HourDraws == {h \in 0..23 : hourly_distribution_full_24[h][1] > 0}

\* if hour < 6: hour = 6
ClampHour(h) == IF h < FirstHour THEN FirstHour ELSE h

\* current_dt.replace(hour=h, minute=m, second=0, microsecond=0)
ReplaceTime(dt, h, m) ==
    (dt \div MinutesPerDay) * MinutesPerDay + h * MinutesPerHour + m

\* minutes_step = int(2 * 365 * 24 * 60 / count)
minutes_step(count) == (2 * 365 * MinutesPerDay) \div count

LoadDrawsUpTo95 == {<<2, 5>>, <<9, 10>>, <<19, 20>>}
\* random.uniform(0.4, 0.9): the ends and two values just below the upper
LoadDraws == {<<2, 5>>, <<8999, 10000>>, <<17999, 20000>>, <<9, 10>>}

\* random.choice(seq), u being the number the generator yields
Choice(seq, u) == seq[(u % Len(seq)) + 1]

\* the draws of one iteration: the numbers behind random.choice of the
\* vehicle, the driver and the route, the hour, the minute, realism and
\* the load factor
TripDraws ==
    {[vehicle |-> 0, driver |-> 0, route |-> 0, hour |-> h, minute |-> 0,
      realism |-> 85, load |-> <<2, 5>>] : h \in HourDraws}
    \cup {[vehicle |-> 1, driver |-> 0, route |-> 1, hour |-> LastHour,
           minute |-> 59, realism |-> 115, load |-> l] : l \in LoadDraws}

\* the catalogs fetched: none, one or two active vehicles (a Motocicleta of
\* 50 kg, a Camion Grande of 18000 kg), none or one active driver, no
\* route or two routes
VehicleCatalogs ==
    {<<>>,
     <<[vehicle_id |-> 1, capacity_kg |-> 50]>>,
     <<[vehicle_id |-> 1, capacity_kg |-> 50],
       [vehicle_id |-> 2, capacity_kg |-> 18000]>>}

DriverCatalogs == {<<>>, <<1>>}

RouteCatalogs ==
    LET short == add_route(123 * 95, 80)
        long == add_route(1116 * 105, 60)
    IN  {<<>>} \cup {<<a, b>> : a \in short, b \in long}

\* round(total_weight, 2) with total_weight = float(capacity) * load, in
\* 1/100 kg
stored_total_weight(capacity, load) ==
    RoundChoices(FMul(<<capacity * CentsPerUnit, 1>>, load))

MissingBaseNoRoutes(vs, ds, rs) == ~(vs # <<>> /\ ds # <<>>)
\* if not (vehicles and drivers and routes)
MissingBase(vs, ds, rs) == ~(vs # <<>> /\ ds # <<>> /\ rs # <<>>)

\* what one iteration takes from the generators: the draws, and the
\* results of the two float roundings they lead to
TapeEntries ==
    UNION {{[draw |-> d, dur |-> m, weight |-> w] :
               m \in HoursToMinutes(actual_dur(Choice(g_routes, d.route),
                                               d.realism)),
               w \in stored_total_weight(
                         Choice(g_vehicles, d.vehicle).capacity_kg, d.load)} :
           d \in TripDraws}

\* the row of one iteration (lines 410-449)
TripRow(e, dt, now, k) ==
    LET d == e.draw
        v == Choice(g_vehicles, d.vehicle)
        departure == ReplaceTime(dt, ClampHour(d.hour), d.minute)
        arrival == departure + e.dur
        status == IF arrival < now THEN "completed" ELSE "in_progress"
    IN  [vehicle_id |-> v.vehicle_id,
         driver_id |-> Choice(g_drivers, d.driver),
         route_id |-> (d.route % Len(g_routes)) + 1,
         departure |-> departure,
         arrival |-> IF status = "completed" THEN <<arrival>> ELSE None,
         total_weight |-> e.weight,
         status |-> status]

TripsInit ==
    /\ g_now = FirstNow
    /\ g_count \in 1..MaxCount
    /\ g_vehicles \in VehicleCatalogs
    /\ g_drivers \in DriverCatalogs
    /\ g_routes \in RouteCatalogs
    /\ g_tape = <<>>
    /\ current_dt = 0
    /\ g_rows = <<>>
    /\ g_inserted = 0
    /\ g_pc = "start"
    /\ g_error = "none"
    /\ run_no = 1
    /\ first_rows = <<>>
    /\ EarlierIdle
    /\ EtlIdle
    /\ RouteIdle
    /\ MainIdle
    /\ ValIdle

\* raise RuntimeError("Faltan datos base (vehicles/drivers/routes).")
RaiseMissingBase ==
    /\ g_pc = "start"
    /\ MissingBase(g_vehicles, g_drivers, g_routes)
    /\ g_pc' = "failed"
    /\ g_error' = "missing_base"
    /\ UNCHANGED <<g_now, g_count, g_vehicles, g_drivers, g_routes, g_tape,
                   current_dt, g_rows, g_inserted, run_no, first_rows,
                   earlierVars, etlVars, routeVars, mainVars, valVars>>

\* start_date = datetime.now() - timedelta(days=730); current_dt = start_date
BeginTrips ==
    /\ g_pc = "start"
    /\ ~MissingBase(g_vehicles, g_drivers, g_routes)
    /\ current_dt' = g_now - DaysBack * MinutesPerDay
    /\ g_pc' = "loop"
    /\ UNCHANGED <<g_now, g_count, g_vehicles, g_drivers, g_routes, g_tape,
                   g_rows, g_inserted, g_error, run_no, first_rows,
                   earlierVars, etlVars, routeVars, mainVars, valVars>>

\* one iteration of: for _ in range(count)
TripStep ==
    /\ g_pc = "loop"
    /\ Len(g_rows) < g_count
    /\ LET k == Len(g_rows) + 1
       IN  \E e \in (IF run_no = 1 THEN TapeEntries ELSE {g_tape[k]}) :
              /\ g_tape' = IF run_no = 1 THEN Append(g_tape, e) ELSE g_tape
              /\ g_rows' = Append(g_rows, TripRow(e, current_dt, g_now, k))
    /\ current_dt' = current_dt + minutes_step(g_count)
    /\ g_pc' = IF Len(g_rows') < g_count THEN "loop" ELSE "insert"
    /\ UNCHANGED <<g_now, g_count, g_vehicles, g_drivers, g_routes,
                   g_inserted, g_error, run_no, first_rows,
                   earlierVars, etlVars, routeVars, mainVars, valVars>>

\* one iteration of: for i in range(0, len(rows), batch):
\*     execute_batch(...); self.conn.commit()
InsertTrips ==
    /\ g_pc = "insert"
    /\ g_inserted < Len(g_rows)
    /\ g_inserted' = Min(g_inserted + batch, Len(g_rows))
    /\ g_pc' = IF g_inserted' < Len(g_rows) THEN "insert" ELSE "done"
    /\ UNCHANGED <<g_now, g_count, g_vehicles, g_drivers, g_routes, g_tape,
                   current_dt, g_rows, g_error, run_no, first_rows,
                   earlierVars, etlVars, routeVars, mainVars, valVars>>

\* the script is run again: the same SEED, the same catalogs, a later
\* datetime.now()
RunAgain ==
    /\ g_pc = "done"
    /\ run_no = 1
    /\ \E delay \in RerunDelays : g_now' = g_now + delay
    /\ first_rows' = g_rows
    /\ run_no' = 2
    /\ current_dt' = 0
    /\ g_rows' = <<>>
    /\ g_inserted' = 0
    /\ g_pc' = "start"
    /\ UNCHANGED <<g_count, g_vehicles, g_drivers, g_routes, g_tape, g_error,
                   earlierVars, etlVars, routeVars, mainVars, valVars>>

TripsNext ==
    \/ RaiseMissingBase
    \/ BeginTrips
    \/ TripStep
    \/ InsertTrips
    \/ RunAgain

SpecTrips == TripsInit /\ [][TripsNext]_vars

(***************************************************************************)
(* validate_data_quality: six counting queries over the tables, evaluated  *)
(* in order.  trip_id is the position of the trip in the table; dates are  *)
(* days, datetimes minutes.                                                *)
(***************************************************************************)
MaxValRows == 1

\* the vehicles table: empty, or vehicle 1 of 50 kg
ValVehicles == {{}, {[vehicle_id |-> 1, capacity_kg |-> 50]}}

\* the drivers table: empty, or driver 1 with no expiry date, a license
\* expired on day 5, or one valid until day 20
ValDrivers ==
    {{}} \cup {{[driver_id |-> 1, license_expiry |-> x]} :
                  x \in {None, <<5>>, <<20>>}}

\* the routes table: empty, or route 1
ValRoutes == {{}, {[route_id |-> 1]}}

\* a trip of day 10, 06:00 to 09:00, 40 kg
ValTrip(v, d, r) ==
    [vehicle_id |-> v, driver_id |-> d, route_id |-> r,
     departure |-> 10 * MinutesPerDay + 360,
     arrival |-> <<10 * MinutesPerDay + 540>>,
     total_weight |-> 40]

\* the rows of trips tried: every combination of references to rows 1 and
\* 2 of the three catalogs, and a trip in progress, one arriving when it
\* leaves, one overloaded
ValTripRows ==
    {ValTrip(v, d, r) : v \in 1..2, d \in 1..2, r \in 1..2}
    \cup {[ValTrip(1, 1, 1) EXCEPT !.arrival = None],
          [ValTrip(1, 1, 1) EXCEPT !.arrival = <<10 * MinutesPerDay + 360>>],
          [ValTrip(1, 1, 1) EXCEPT !.total_weight = 60]}

\* the rows of deliveries tried
ValDeliveryRows ==
    {[trip_id |-> t, tracking_number |-> <<"FL202600000001">>] : t \in 1..2}
    \cup {[trip_id |-> 1, tracking_number |-> x] : x \in {None, <<"">>}}

\* the sequences over S of at most n elements
SeqsUpTo(S, n) == UNION {[1..k -> S] : k \in 0..n}

TripsWithoutVehicleInner(db) == 0
\* Trips sin vehiculo valido: trips LEFT JOIN vehicles WHERE
\* v.vehicle_id IS NULL
TripsWithoutVehicle(db) ==
    Cardinality({k \in DOMAIN db.trips :
        \A v \in db.vehicles : v.vehicle_id # db.trips[k].vehicle_id})

\* Deliveries sin trip valido: deliveries LEFT JOIN trips WHERE
\* t.trip_id IS NULL
DeliveriesWithoutTrip(db) ==
    Cardinality({k \in DOMAIN db.deliveries :
        db.deliveries[k].trip_id \notin DOMAIN db.trips})

\* arrival <= departure
ArrivalNotAfterDeparture(db) ==
    Cardinality({k \in DOMAIN db.trips :
        /\ db.trips[k].arrival # None
        /\ db.trips[k].arrival[1] <= db.trips[k].departure})

\* Peso excede capacidad: trips JOIN vehicles WHERE total_weight_kg >
\* capacity_kg
WeightExceedsCapacity(db) ==
    Cardinality({<<k, v>> \in (DOMAIN db.trips) \X db.vehicles :
        /\ v.vehicle_id = db.trips[k].vehicle_id
        /\ db.trips[k].total_weight > v.capacity_kg})

\* Licencia vencida vs fecha viaje: trips JOIN drivers WHERE
\* license_expiry IS NOT NULL AND departure_datetime::date > license_expiry
LicenseExpired(db) ==
    Cardinality({<<k, d>> \in (DOMAIN db.trips) \X db.drivers :
        /\ d.driver_id = db.trips[k].driver_id
        /\ d.license_expiry # None
        /\ db.trips[k].departure \div MinutesPerDay > d.license_expiry[1]})

\* Entregas sin tracking: tracking_number IS NULL OR tracking_number = ''
DeliveriesWithoutTracking(db) ==
    Cardinality({k \in DOMAIN db.deliveries :
        \/ db.deliveries[k].tracking_number = None
        \/ db.deliveries[k].tracking_number = <<"">>})

\* the dictionary validations, in insertion order: the count of each query
validations(db) ==
    <<TripsWithoutVehicle(db), DeliveriesWithoutTrip(db),
      ArrivalNotAfterDeparture(db), WeightExceedsCapacity(db),
      LicenseExpired(db), DeliveriesWithoutTracking(db)>>

ValInit ==
    /\ q_db \in [vehicles : ValVehicles, drivers : ValDrivers,
                  routes : ValRoutes,
                  trips : SeqsUpTo(ValTripRows, MaxValRows),
                  deliveries : SeqsUpTo(ValDeliveryRows, MaxValRows)]
    /\ q_pos = 0
    /\ q_counts = <<>>
    /\ q_ok = TRUE
    /\ q_pc = "for"
    /\ EarlierIdle
    /\ EtlIdle
    /\ RouteIdle
    /\ GenIdle
    /\ MainIdle

OkAfterLast(ok, c) == c = 0
\* if c > 0: ok = False; ok is left as it is otherwise
OkAfter(ok, c) == IF c > 0 THEN FALSE ELSE ok

\* one iteration of: for desc, sql in validations.items()
CheckStep ==
    /\ q_pc = "for"
    /\ q_pos < Len(validations(q_db))
    /\ LET c == validations(q_db)[q_pos + 1]
       IN  /\ q_counts' = Append(q_counts, c)
           /\ q_ok' = OkAfter(q_ok, c)
    /\ q_pos' = q_pos + 1
    /\ UNCHANGED <<q_db, q_pc, earlierVars, etlVars, routeVars, genVars, mainVars>>

\* return ok
ReturnOk ==
    /\ q_pc = "for"
    /\ q_pos = Len(validations(q_db))
    /\ q_pc' = "returned"
    /\ UNCHANGED <<q_db, q_pos, q_counts, q_ok, earlierVars, etlVars, routeVars,
                   genVars, mainVars>>

ValNext ==
    \/ CheckStep
    \/ ReturnOk

SpecValidate == ValInit /\ [][ValNext]_vars

(***************************************************************************)
(* main: connect, truncate_all, the six generators in order, summary with  *)
(* validate_data_quality inside it; except: rollback; finally: close.      *)
(* x_tables keeps the number of rows of every table; q_db, read by the     *)
(* queries of the validator, is a small database standing for their        *)
(* contents.  Any call to the database may raise; cursor.close() and       *)
(* connection.close() do not.                                              *)
(***************************************************************************)
TableOrder == <<"vehicles", "drivers", "routes", "trips", "deliveries",
                "maintenance">>

\* the arguments main passes to the generators
MainCount ==
    [t \in 1..Len(TableOrder) |->
        CASE t = 1 -> 200 [] t = 2 -> 400 [] t = 3 -> 50
          [] t = 4 -> 100000 [] t = 5 -> 400000 [] t = 6 -> 5000]

\* len(rows) when the generator of table t reaches its insert: routes and
\* maintenance may build fewer rows than asked, the others build count
BuiltRows(t) ==
    CASE TableOrder[t] = "routes" ->
            {Min(MainCount[t], Len(SimpleCandidates) + Len(ABCCandidates)
                                   + Len(ABCDCandidates))}
      [] TableOrder[t] = "maintenance" -> {0, MainCount[t]}
      [] OTHER -> {MainCount[t]}

BatchSizeWhole(t, built) == Max(built, 1)
\* rows per execute_batch call: batch = 2000 for trips and deliveries, the
\* whole list in one call for the other tables
BatchSize(t, built) ==
    IF TableOrder[t] \in {"trips", "deliveries"} THEN batch
                                                  ELSE Max(built, 1)

\* the generators that raise RuntimeError before they build a row
MayRaise(t) == TableOrder[t] = "trips"

RollbackNever(conn) == FALSE
\* if gen.conn: a connection object is truthy, None is not
RollbackIssued(conn) == conn # "none"

\* the contents the validator may find once every generator has run: one
\* row stands for each table
SummaryDatabases ==
    [vehicles : ValVehicles \ {{}}, drivers : ValDrivers \ {{}},
     routes : ValRoutes \ {{}},
     trips : {<<r>> : r \in ValTripRows},
     deliveries : {<<r>> : r \in ValDeliveryRows}]

MainInit ==
    /\ x_conn = "none"
    /\ x_old \in BOOLEAN
    /\ x_table = 0
    /\ x_built = [t \in 1..Len(TableOrder) |-> 0]
    /\ x_sent = 0
    /\ x_pending = 0
    /\ x_tables = [t \in 1..Len(TableOrder) |-> 0]
    /\ x_raised = FALSE
    /\ x_log = <<>>
    /\ x_summary = None
    /\ x_pc = "connect"
    /\ EarlierIdle
    /\ EtlIdle
    /\ RouteIdle
    /\ GenIdle
    /\ ValIdle

\* gen.connect() succeeds
Connect ==
    /\ x_pc = "connect"
    /\ x_conn' = "open"
    /\ x_log' = Append(x_log, "connect")
    /\ x_pc' = "truncate"
    /\ UNCHANGED <<x_old, x_table, x_built, x_sent, x_pending, x_tables,
                   x_raised, x_summary, earlierVars, etlVars, routeVars, genVars,
                   valVars>>

\* gen.connect() raises: in psycopg2.connect, self.conn stays None; in
\* self.conn.cursor(), self.conn is already set
ConnectFails ==
    /\ x_pc = "connect"
    /\ x_conn' \in {"none", "open"}
    /\ x_log' = Append(x_log, "connect")
    /\ x_pc' = "except"
    /\ UNCHANGED <<x_old, x_table, x_built, x_sent, x_pending, x_tables,
                   x_raised, x_summary, earlierVars, etlVars, routeVars, genVars,
                   valVars>>

\* truncate_all(): TRUNCATE ... CASCADE; commit
TruncateAll ==
    /\ x_pc = "truncate"
    /\ x_old' = FALSE
    /\ x_table' = 1
    /\ x_log' = Append(x_log, "truncate_all")
    /\ x_pc' = "generate"
    /\ UNCHANGED <<x_conn, x_built, x_sent, x_pending, x_tables, x_raised,
                   x_summary, earlierVars, etlVars, routeVars, genVars, valVars>>

\* truncate_all() raises in its statement or in its commit
TruncateFails ==
    /\ x_pc = "truncate"
    /\ x_log' = Append(x_log, "truncate_all")
    /\ x_pc' = "except"
    /\ UNCHANGED <<x_conn, x_old, x_table, x_built, x_sent, x_pending,
                   x_tables, x_raised, x_summary, earlierVars, etlVars, routeVars,
                   genVars, valVars>>

\* the generator of the next table builds its rows
Generate ==
    /\ x_pc = "generate"
    /\ \E n \in BuiltRows(x_table) : x_built' = [x_built EXCEPT ![x_table] = n]
    /\ x_log' = Append(x_log, TableOrder[x_table])
    /\ x_pc' = "execute"
    /\ UNCHANGED <<x_conn, x_old, x_table, x_sent, x_pending, x_tables,
                   x_raised, x_summary,
                   earlierVars, etlVars, routeVars, genVars, valVars>>

\* the generator raises RuntimeError before it builds a row
GenerateRaises ==
    /\ x_pc = "generate"
    /\ MayRaise(x_table)
    /\ x_log' = Append(x_log, TableOrder[x_table])
    /\ x_pc' = "except"
    /\ UNCHANGED <<x_conn, x_old, x_table, x_built, x_sent, x_pending,
                   x_tables, x_raised, x_summary, earlierVars, etlVars, routeVars,
                   genVars, valVars>>

\* execute_batch(self.cur, q, rows[i : i + batch])
ExecuteBatch ==
    /\ x_pc = "execute"
    /\ LET n == Min(BatchSize(x_table, x_built[x_table]),
                    x_built[x_table] - x_sent)
       IN  /\ x_sent' = x_sent + n
           /\ x_pending' = x_pending + n
    /\ x_pc' = "commit"
    /\ UNCHANGED <<x_conn, x_old, x_table, x_built, x_tables, x_raised,
                   x_log, x_summary,
                   earlierVars, etlVars, routeVars, genVars, valVars>>

\* self.conn.commit(), then the next batch, the next generator or summary
Commit ==
    /\ x_pc = "commit"
    /\ x_tables' = [x_tables EXCEPT ![x_table] = @ + x_pending]
    /\ x_pending' = 0
    /\ IF x_sent < x_built[x_table]
          THEN x_pc' = "execute" /\ UNCHANGED <<x_table, x_sent>>
          ELSE IF x_table < Len(TableOrder)
                  THEN /\ x_pc' = "generate"
                       /\ x_table' = x_table + 1
                       /\ x_sent' = 0
                  ELSE x_pc' = "summary" /\ UNCHANGED <<x_table, x_sent>>
    /\ UNCHANGED <<x_conn, x_old, x_built, x_raised, x_log, x_summary,
                   earlierVars, etlVars, routeVars, genVars, valVars>>

\* an execute_batch or a commit of a generator raises
PersistenceFails ==
    /\ x_pc \in {"execute", "commit"}
    /\ x_pc' = "except"
    /\ UNCHANGED <<x_conn, x_old, x_table, x_built, x_sent, x_pending,
                   x_tables, x_raised, x_log, x_summary, earlierVars, etlVars,
                   routeVars, genVars, valVars>>

\* gen.summary() up to its call of validate_data_quality: the six counts
Summary ==
    /\ x_pc = "summary"
    /\ x_log' = Append(x_log, "summary")
    /\ x_pc' = "validate"
    /\ q_db' \in SummaryDatabases
    /\ q_pc' = "for"
    /\ UNCHANGED <<x_conn, x_old, x_table, x_built, x_sent, x_pending,
                   x_tables, x_raised, x_summary, q_pos, q_counts, q_ok,
                   earlierVars, etlVars, routeVars, genVars>>

\* a counting query of summary() raises
SummaryFails ==
    /\ x_pc = "summary"
    /\ x_log' = Append(x_log, "summary")
    /\ x_pc' = "except"
    /\ UNCHANGED <<x_conn, x_old, x_table, x_built, x_sent, x_pending,
                   x_tables, x_raised, x_summary, earlierVars, etlVars, routeVars,
                   genVars, valVars>>

\* a query of validate_data_quality raises, or the json file cannot be
\* written
ValidationFails ==
    /\ x_pc = "validate"
    /\ x_pc' = "except"
    /\ UNCHANGED <<x_conn, x_old, x_table, x_built, x_sent, x_pending,
                   x_tables, x_raised, x_log, x_summary, earlierVars, etlVars,
                   routeVars, genVars, valVars>>

\* valid = self.validate_data_quality() has returned: the summary is
\* written with validations_passed = valid
WriteSummary ==
    /\ x_pc = "validate"
    /\ q_pc = "returned"
    /\ x_summary' = <<q_ok>>
    /\ x_pc' = "finally"
    /\ UNCHANGED <<x_conn, x_old, x_table, x_built, x_sent, x_pending,
                   x_tables, x_raised, x_log, earlierVars, etlVars, routeVars,
                   genVars, valVars>>

\* except Exception: if gen.conn: gen.conn.rollback(); raise
Except ==
    /\ x_pc = "except"
    /\ IF RollbackIssued(x_conn)
          THEN x_pending' = 0 /\ x_log' = Append(x_log, "rollback")
          ELSE UNCHANGED <<x_pending, x_log>>
    /\ x_raised' = TRUE
    /\ x_pc' = "finally"
    /\ UNCHANGED <<x_conn, x_old, x_table, x_built, x_sent, x_tables,
                   x_summary, earlierVars, etlVars, routeVars, genVars, valVars>>

\* finally: gen.close()
Finally ==
    /\ x_pc = "finally"
    /\ x_conn' = IF x_conn = "open" THEN "closed" ELSE x_conn
    /\ x_pending' = 0
    /\ x_log' = Append(x_log, "close")
    /\ x_pc' = IF x_raised THEN "aborted" ELSE "ok"
    /\ UNCHANGED <<x_old, x_table, x_built, x_sent, x_tables, x_raised,
                   x_summary, earlierVars, etlVars, routeVars, genVars, valVars>>

MainNext ==
    \/ Connect
    \/ ConnectFails
    \/ TruncateAll
    \/ TruncateFails
    \/ Generate
    \/ GenerateRaises
    \/ ExecuteBatch
    \/ Commit
    \/ PersistenceFails
    \/ Summary
    \/ SummaryFails
    \/ (x_pc = "validate" /\ CheckStep)
    \/ (x_pc = "validate" /\ ReturnOk)
    \/ ValidationFails
    \/ WriteSummary
    \/ Except
    \/ Finally

SpecMain == MainInit /\ [][MainNext]_vars

(***************************************************************************)
(* generate_trips and generate_deliveries side by side: a run of either.   *)
(***************************************************************************)
GeneratorsInit == TripsInit \/ AllocInit

GeneratorsNext == TripsNext \/ AllocNext

SpecGenerators == GeneratorsInit /\ [][GeneratorsNext]_vars

\* C11: generate_routes(count) inserts exactly count routes for every
\* count >= 0, and the route codes of the inserted routes are pairwise
\* distinct.
C11_ExactlyCountRoutes ==
    r_pc = "done" =>
        /\ r_inserted = r_count
        /\ \A a, b \in 1..Len(r_routes) :
               a # b => r_routes[a].route_code # r_routes[b].route_code

\* C12: two runs of the generator with the same seed and the same catalogs
\* produce identical trip rows, whatever the wall-clock time of each run.
C12_SameSeedSameRows ==
    (run_no = 2 /\ g_pc = "done") => g_rows = first_rows

\* C13 as stated: after a run that aborts, every table holds either zero
\* rows of the run or all the rows generated for it.
C13_NoPartialTable ==
    x_pc = "aborted" =>
        \A t \in 1..Len(TableOrder) : x_tables[t] \in {0, x_built[t]}

\* C13, amended: after a run that aborts, the rollback discards only the
\* batch that was not committed: the tables generated before the failure
\* hold all their rows, the tables not reached hold none, and the table
\* being inserted holds the rows of the batches committed before the
\* failure, all the rows handed over but those of at most one batch (2000
\* rows for trips and deliveries); nothing stays uncommitted.
C13_CommittedBatchesSurvive ==
    x_pc = "aborted" =>
        /\ x_pending = 0
        /\ \A t \in 1..Len(TableOrder) :
              /\ t < x_table => x_tables[t] = x_built[t]
              /\ t > x_table => x_tables[t] = 0
              /\ t = x_table =>
                    /\ x_tables[t] <= x_sent
                    /\ x_sent <= x_built[t]
                    /\ TableOrder[t] \in {"trips", "deliveries"} =>
                          /\ x_sent - x_tables[t] <= batch
                          /\ x_tables[t] % batch = 0 \/ x_tables[t] = x_built[t]
                    /\ TableOrder[t] \notin {"trips", "deliveries"} =>
                          x_tables[t] \in {0, x_built[t]}

\* the second batch of trips failed: the first batch stays in the table
C13_Witness ==
    /\ x_pc = "aborted"
    /\ x_table \in 1..Len(TableOrder)
    /\ TableOrder[x_table] = "trips"
    /\ x_built[x_table] = 100000
    /\ x_tables[x_table] = batch
    /\ x_sent = 2 * batch

\* some trip of the tables refers to a vehicle that does not exist
DanglingVehicle ==
    \E k \in DOMAIN q_db.trips :
        \A v \in q_db.vehicles : v.vehicle_id # q_db.trips[k].vehicle_id

\* some trip refers to a driver that does not exist
DanglingDriver ==
    \E k \in DOMAIN q_db.trips :
        \A d \in q_db.drivers : d.driver_id # q_db.trips[k].driver_id

\* some trip refers to a route that does not exist
DanglingRoute ==
    \E k \in DOMAIN q_db.trips :
        \A r \in q_db.routes : r.route_id # q_db.trips[k].route_id

\* some delivery refers to a trip that does not exist
DanglingTrip ==
    \E k \in DOMAIN q_db.deliveries :
        q_db.deliveries[k].trip_id \notin DOMAIN q_db.trips

\* C14 as stated: validate_data_quality returns a failing result whenever
\* some trip references a vehicle, a driver or a route that does not exist,
\* and whenever some delivery references a trip that does not exist.
C14_AllReferencesChecked ==
    (q_pc = "returned"
        /\ (DanglingVehicle \/ DanglingDriver \/ DanglingRoute
                \/ DanglingTrip))
    => ~q_ok

\* C14, amended: validate_data_quality returns a failing result whenever
\* some trip references a vehicle that does not exist and whenever some
\* delivery references a trip that does not exist; the references of a trip
\* to its driver and to its route are not checked.
C14_VehicleAndTripReferencesChecked ==
    /\ (q_pc = "returned" /\ (DanglingVehicle \/ DanglingTrip)) => ~q_ok
    /\ (q_pc = "returned" /\ q_counts = <<0, 0, 0, 0, 0, 0>>) => q_ok

\* a trip whose only defect is its missing vehicle makes the result fail
C14_Witness ==
    /\ q_pc = "returned"
    /\ DanglingVehicle
    /\ ~DanglingDriver /\ ~DanglingRoute /\ ~DanglingTrip
    /\ q_counts = <<1, 0, 0, 0, 0, 0>>
    /\ ~q_ok

\* the capacity of the vehicle of a trip row
CapacityOf(r) ==
    (CHOOSE v \in {g_vehicles[k] : k \in 1..Len(g_vehicles)} :
        v.vehicle_id = r.vehicle_id).capacity_kg

\* C15: for every trip emitted by generate_trips, the stored total weight
\* (rounded to 2 decimals) is at most 0.9 times the capacity of the trip's
\* vehicle, hence never above the capacity the validator compares it with.
C15_WeightAtMost90Percent ==
    \A k \in 1..Len(g_rows) :
        /\ 10 * g_rows[k].total_weight
              <= 9 * CapacityOf(g_rows[k]) * CentsPerUnit
        /\ g_rows[k].total_weight <= CapacityOf(g_rows[k]) * CentsPerUnit

\* a load factor just below 0.9 whose product is rounded up to 0.9 of the
\* capacity: 50 kg * 0.89995 = 44.9975, stored as 45.00
C15_Witness ==
    /\ g_pc = "done"
    /\ \E k \in 1..Len(g_rows) :
          /\ g_tape[k].draw.load = <<17999, 20000>>
          /\ CapacityOf(g_rows[k]) = 50
          /\ g_rows[k].total_weight = 4500

\* C16: generate_trips raises, with no trip row built or committed,
\* whenever the active vehicles, the active drivers or the routes are empty;
\* generate_deliveries raises, with no delivery row built or committed,
\* whenever there are no trips.
C16_MissingPrerequisiteAborts ==
    /\ (g_pc # "idle"
          /\ (g_vehicles = <<>> \/ g_drivers = <<>> \/ g_routes = <<>>))
       => /\ g_pc \in {"start", "failed"}
          /\ g_pc = "start" => ENABLED RaiseMissingBase
          /\ g_pc = "failed" => g_error = "missing_base"
          /\ g_rows = <<>>
          /\ g_inserted = 0
    /\ (pc # "idle" /\ n_trips = 0)
       => /\ pc \in {"start", "failed"}
          /\ pc = "start" => ENABLED NoTrips
          /\ pc = "failed" => error = "no_trips"
          /\ rows = <<>>
          /\ inserted = 0

\* vehicles and drivers are there, routes are not: the call has raised
C16_Witness ==
    /\ g_pc = "failed"
    /\ g_error = "missing_base"
    /\ g_vehicles # <<>>
    /\ g_drivers # <<>>
    /\ g_routes = <<>>

\* the hour of day of a datetime
HourOf(dt) == (dt % MinutesPerDay) \div MinutesPerHour

\* the hourly vector has 24 entries that sum to 1 and are zero for the
\* hours 0-5 and 23
HourlyVectorIsDistribution ==
    /\ DOMAIN hourly_distribution_full_24 = 0..23
    /\ FSum([k \in 1..24 |-> hourly_distribution_full_24[k - 1]]) = <<1, 1>>
    /\ \A h \in (0..5) \cup {23} : hourly_distribution_full_24[h] = <<0, 1>>

\* an hour below 6 is replaced by 6, any other hour is kept
DrawnHourIsClamped ==
    \A h \in 0..23 : ClampHour(h) = (IF h < FirstHour THEN FirstHour ELSE h)

\* C17: every trip's departure hour is in [6, 22]: the hourly probability
\* vector has 24 entries that sum to 1, with zero probability for hours
\* 0-5 and 23, and a drawn hour below 6 is replaced by 6.
C17_DepartureHourInWindow ==
    /\ \A k \in 1..Len(g_rows) :
          HourOf(g_rows[k].departure) \in FirstHour..LastHour
    /\ HourlyVectorIsDistribution
    /\ DrawnHourIsClamped

\* two trips were emitted, one leaving at 6 and one at 22
C17_Witness ==
    /\ g_pc = "done"
    /\ \E a, b \in 1..Len(g_rows) :
          /\ HourOf(g_rows[a].departure) = FirstHour
          /\ HourOf(g_rows[b].departure) = LastHour

\* C18: whenever the capacity check passes, the cyclic increment loop and
\* the cyclic decrement loop of generate_deliveries terminate, with the
\* remaining diff at 0, after at most 4 full passes over the N groups:
\* every iteration is one step of the cursor, the loop is never stuck, and
\* the iterations never exceed 4 * N.
C18_LoopsEndWithinFourPasses ==
    /\ iters <= (MaxPerTrip - MinPerTrip) * n_trips
    /\ pc = "inc" => (diff > 0 /\ n_trips >= 1 /\ ENABLED IncStep)
    /\ pc = "dec" => (need > 0 /\ n_trips >= 1 /\ ENABLED DecStep)
    /\ (pc \in {"emit", "insert", "done"} /\ target >= SeqSum(initial))
          => diff = 0
    /\ (pc \in {"emit", "insert", "done"} /\ target < SeqSum(initial))
          => need = 0

\* the longest loop: every trip drew 2 and the target is 6 per trip
C18_Witness ==
    /\ pc = "emit"
    /\ n_trips = MaxTrips
    /\ target > SeqSum(initial)
    /\ iters = (MaxPerTrip - MinPerTrip) * n_trips

\* C19: the correction step moves the counts in one direction only: with
\* target above the sum of the initial draw no count ends below its initial
\* value, with target below it no count ends above, and with target equal
\* to it every count keeps its initial value.
C19_OneDirection ==
    (pc \notin {"idle", "start"} /\ n_trips >= 1) =>
        /\ target > SeqSum(initial) =>
              \A k \in 1..n_trips : per_trip[k] >= initial[k]
        /\ target < SeqSum(initial) =>
              \A k \in 1..n_trips : per_trip[k] <= initial[k]
        /\ target = SeqSum(initial) => per_trip = initial

\* a finished call that lowered one count and left another as drawn
C19_Witness ==
    /\ pc = "done"
    /\ target < SeqSum(initial)
    /\ \E a, b \in 1..n_trips :
          /\ per_trip[a] < initial[a]
          /\ per_trip[b] = initial[b]

\* the cumulative distance of the last event of vehicle k, 0 if it has none
LastKm(k) ==
    LET own == {r \in 1..Len(m_rows) : m_rows[r].vehicle_id = k}
    IN  IF own = {} THEN 0
        ELSE m_rows[CHOOSE r \in own : \A q \in own : q <= r].km

\* C20: generate_maintenance takes the vehicles in ascending vehicle id
\* with one row counter for all: when the target stops the walk, every
\* vehicle with an id below the last vehicle that emitted an event has
\* emitted all its available crossings (it was left with its next threshold
\* beyond its total distance), and every vehicle with a higher id has
\* emitted none.
C20_EarlierVehiclesExhausted ==
    /\ \A r \in 2..Len(m_rows) :
          m_rows[r - 1].vehicle_id <= m_rows[r].vehicle_id
    /\ (m_pc \in {"insert", "done"} /\ m_rows # <<>>
          /\ Len(m_rows) >= m_target)
       => LET last == m_rows[Len(m_rows)].vehicle_id
          IN  \A k \in 1..Len(stats) :
                 /\ k < last =>
                       /\ k \in exhausted
                       /\ \/ stats[k].first_trip = None
                          \/ stats[k].total_km <= 0
                          \/ stats[k].total_km - LastKm(k)
                                < ThresholdBase + ThresholdJitter
                 /\ k > last =>
                       \A r \in 1..Len(m_rows) : m_rows[r].vehicle_id # k

\* the target stopped the walk on the second vehicle, which had a crossing
\* left; the first vehicle had emitted its only one
C20_Witness ==
    /\ m_pc = "done"
    /\ Len(stats) = 2
    /\ m_inserted = m_target
    /\ m_rows # <<>>
    /\ m_rows[Len(m_rows)].vehicle_id = 2
    /\ m_rows[1].vehicle_id = 1
    /\ 1 \in exhausted
    /\ 2 \notin exhausted

\* the calls of the try block of main, in the order of lines 756-767
StageOrder == <<"connect", "truncate_all">> \o TableOrder \o <<"summary">>

\* the calls of x_log that belong to the try block
StagesRun == SelectSeq(x_log, LAMBDA c : c \notin {"rollback", "close"})

\* C21: main calls the stages in the fixed order truncate_all, vehicles,
\* drivers, routes, trips, deliveries, maintenance, summary (with the
\* validation inside it), so a table receives rows only after every table
\* before it is complete; when a stage raises no later stage is called, a
\* rollback is issued on the connection, and in every outcome the last
\* call is close and the connection is not left open.
C21_FixedOrderRollbackClose ==
    /\ \E k \in 0..Len(StageOrder) : StagesRun = SubSeq(StageOrder, 1, k)
    /\ \A t \in 1..Len(TableOrder) :
          (x_tables[t] > 0 \/ (t = x_table /\ x_pending > 0)) =>
              /\ \E k \in 1..Len(x_log) : x_log[k] = "truncate_all"
              /\ \A u \in 1..(t - 1) :
                    /\ x_tables[u] = x_built[u]
                    /\ \E k \in 1..Len(x_log) : x_log[k] = TableOrder[u]
    /\ x_pc = "ok" => /\ x_log = StageOrder \o <<"close">>
                      /\ x_conn = "closed"
                      /\ ~x_raised
    /\ x_pc = "aborted" =>
          /\ x_raised
          /\ x_conn # "open"
          /\ \E k \in 1..Len(StageOrder) :
                /\ k > 1 => x_conn = "closed"
                /\ x_log = SubSeq(StageOrder, 1, k)
                           \o (IF x_conn = "closed" THEN <<"rollback">>
                                                    ELSE <<>>)
                           \o <<"close">>

\* generate_trips raised: deliveries, maintenance and summary were never
\* called, the rollback was issued and the connection closed
C21_Witness ==
    /\ x_pc = "aborted"
    /\ x_conn = "closed"
    /\ x_log = <<"connect", "truncate_all", "vehicles", "drivers", "routes",
                 "trips", "rollback", "close">>
    /\ x_tables[3] = x_built[3]
    /\ x_tables[4] = 0

\* C22: validate_data_quality evaluates all six checks whatever the
\* earlier ones found, returns true exactly when the six counts are zero,
\* changes no table and has no step that raises because of a violation; in
\* main a failing validation is followed by the writing of the summary with
\* validations_passed false and by close, with no rollback and no
\* exception.
C22_ValidationIsDiagnostic ==
    /\ [](/\ x_pc = "validate" =>
               /\ q_pc = "for" => ENABLED (CheckStep \/ ReturnOk)
               /\ q_pc = "returned" =>
                     /\ q_counts = validations(q_db)
                     /\ Len(q_counts) = 6
                     /\ q_ok <=> (\A k \in 1..Len(q_counts) : q_counts[k] = 0)
                     /\ ENABLED WriteSummary
          /\ x_summary # None =>
               /\ x_summary = <<q_ok>>
               /\ x_pc \in {"finally", "ok"}
               /\ ~x_raised
               /\ \A k \in 1..Len(x_log) : x_log[k] # "rollback")
    /\ [][x_pc = "validate" =>
              /\ q_db' = q_db
              /\ x_tables' = x_tables
              /\ x_pending' = x_pending
              /\ q_pos' # q_pos => (x_pc' = "validate" /\ q_pos' = q_pos + 1)
              /\ x_pc' \in {"validate", "finally", "except"}
              /\ (x_pc' = "finally") => x_summary' = <<q_ok>>]_vars

\* the first and the last check found a violation, the four between them
\* were evaluated all the same, and the run ended normally with
\* validations_passed false
C22_Witness ==
    /\ x_pc = "ok"
    /\ q_counts = <<1, 0, 0, 0, 0, 1>>
    /\ x_summary = <<FALSE>>
    /\ x_log = StageOrder \o <<"close">>
    /\ x_conn = "closed"

\* the gap of the trip as C23 states it, in minutes: max(arrival -
\* departure, 1 hour) / n for a completed trip, 30 minutes otherwise
StatedGap ==
    IF trip.arrival # None
       THEN Frac(Max(trip.arrival[1] - trip.departure, 60), tape.n)
       ELSE <<30, 1>>

\* the distance between the integer a and the fraction x, times two
TwiceDistance(a, x) ==
    LET d == FAdd(<<a, 1>>, <<-x[1], x[2]>>)
    IN  IF d[1] < 0 THEN <<-2 * d[1], d[2]>> ELSE <<2 * d[1], d[2]>>

MaxExtract == 2

\* the functions that open a cursor on Snowflake, in the order of run_etl
LoadSteps == <<"load_dimensions", "load_facts", "_calculate_daily_totals">>

\* what run_etl reaches after the load function at position k of LoadSteps
AfterLoad(k) == IF k < Len(LoadSteps) THEN LoadSteps[k + 1] ELSE "close"

\* the position in LoadSteps of the function in progress
LoadPos == CHOOSE k \in 1..Len(LoadSteps) : LoadSteps[k] = etl_pc

\* self.metrics["errors"] += 1
CountError(m) == [m EXCEPT !.errors = @ + 1]

\* if self.pg_conn: self.pg_conn.close(), and the same for sf_conn
Closed(conn) == IF conn = "none" THEN "none" ELSE "closed"

EtlInit ==
    /\ pg_conn = "none"
    /\ sf_conn = "none"
    /\ sf_cursor = "none"
    /\ metrics = [records_extracted |-> 0, records_transformed |-> 0,
                  records_loaded |-> 0, errors |-> 0]
    /\ df_len = 0
    /\ tr_len = 0
    /\ etl_raised = FALSE
    /\ etl_pc = "connect_pg"
    /\ EarlierIdle
    /\ RouteIdle
    /\ GenIdle
    /\ MainIdle
    /\ ValIdle

\* self.pg_conn = psycopg2.connect(**POSTGRES_CONFIG)
ConnectPostgres ==
    /\ etl_pc = "connect_pg"
    /\ pg_conn' = "open"
    /\ etl_pc' = "connect_sf"
    /\ UNCHANGED <<sf_conn, sf_cursor, metrics, df_len, tr_len, etl_raised,
                   earlierVars, routeVars, genVars, mainVars, valVars>>

\* psycopg2.connect raises: connect_databases returns False and run_etl
\* returns
PostgresFails ==
    /\ etl_pc = "connect_pg"
    /\ metrics' = CountError(metrics)
    /\ etl_pc' = "returned"
    /\ UNCHANGED <<pg_conn, sf_conn, sf_cursor, df_len, tr_len, etl_raised,
                   earlierVars, routeVars, genVars, mainVars, valVars>>

\* self.sf_conn = snowflake.connector.connect(**SNOWFLAKE_CONFIG); True
ConnectSnowflake ==
    /\ etl_pc = "connect_sf"
    /\ sf_conn' = "open"
    /\ etl_pc' = "extract"
    /\ UNCHANGED <<pg_conn, sf_cursor, metrics, df_len, tr_len, etl_raised,
                   earlierVars, routeVars, genVars, mainVars, valVars>>

\* snowflake.connector.connect raises: connect_databases returns False and
\* run_etl returns
SnowflakeFails ==
    /\ etl_pc = "connect_sf"
    /\ metrics' = CountError(metrics)
    /\ etl_pc' = "returned"
    /\ UNCHANGED <<pg_conn, sf_conn, sf_cursor, df_len, tr_len, etl_raised,
                   earlierVars, routeVars, genVars, mainVars, valVars>>

\* df = self.extract_daily_data(); if not df.empty
Extract ==
    /\ etl_pc = "extract"
    /\ \E n \in 0..MaxExtract :
          /\ df_len' = n
          /\ metrics' = [metrics EXCEPT !.records_extracted = n]
          /\ etl_pc' = IF n > 0 THEN "transform"
                                ELSE "_calculate_daily_totals"
    /\ UNCHANGED <<pg_conn, sf_conn, sf_cursor, tr_len, etl_raised,
                   earlierVars, routeVars, genVars, mainVars, valVars>>

\* pd.read_sql raises: extract_daily_data returns an empty frame
ExtractFails ==
    /\ etl_pc = "extract"
    /\ df_len' = 0
    /\ metrics' = CountError(metrics)
    /\ etl_pc' = "_calculate_daily_totals"
    /\ UNCHANGED <<pg_conn, sf_conn, sf_cursor, tr_len, etl_raised,
                   earlierVars, routeVars, genVars, mainVars, valVars>>

\* df_transformed = self.transform_data(df); if not df_transformed.empty
Transform ==
    /\ etl_pc = "transform"
    /\ tr_len' = df_len
    /\ metrics' = [metrics EXCEPT !.records_transformed = df_len]
    /\ etl_pc' = LoadSteps[1]
    /\ UNCHANGED <<pg_conn, sf_conn, sf_cursor, df_len, etl_raised,
                   earlierVars, routeVars, genVars, mainVars, valVars>>

\* transform_data catches an exception and returns an empty frame
TransformFails ==
    /\ etl_pc = "transform"
    /\ tr_len' = 0
    /\ metrics' = CountError(metrics)
    /\ etl_pc' = "_calculate_daily_totals"
    /\ UNCHANGED <<pg_conn, sf_conn, sf_cursor, df_len, etl_raised,
                   earlierVars, routeVars, genVars, mainVars, valVars>>

\* cursor = self.sf_conn.cursor(), before the try of the load function
OpenCursor ==
    /\ etl_pc \in {LoadSteps[k] : k \in 1..Len(LoadSteps)}
    /\ sf_cursor # "open"
    /\ sf_cursor' = "open"
    /\ UNCHANGED <<pg_conn, sf_conn, metrics, df_len, tr_len, etl_raised,
                   etl_pc,
                   earlierVars, routeVars, genVars, mainVars, valVars>>

\* self.sf_conn.cursor() raises, outside the try of the load function
CursorFails ==
    /\ etl_pc \in {LoadSteps[k] : k \in 1..Len(LoadSteps)}
    /\ sf_cursor # "open"
    /\ etl_pc' = "except"
    /\ UNCHANGED <<pg_conn, sf_conn, sf_cursor, metrics, df_len, tr_len,
                   etl_raised,
                   earlierVars, routeVars, genVars, mainVars, valVars>>

\* the statements of the load function and self.sf_conn.commit() succeed;
\* finally: cursor.close()
LoadCommits ==
    /\ sf_cursor = "open"
    /\ metrics' = IF etl_pc = "load_facts"
                     THEN [metrics EXCEPT !.records_loaded = tr_len]
                     ELSE metrics
    /\ sf_cursor' = "closed"
    /\ etl_pc' = AfterLoad(LoadPos)
    /\ UNCHANGED <<pg_conn, sf_conn, df_len, tr_len, etl_raised,
                   earlierVars, routeVars, genVars, mainVars, valVars>>

\* a statement or the commit raises: except: rollback, errors += 1;
\* finally: cursor.close()
LoadFails ==
    /\ sf_cursor = "open"
    /\ metrics' = CountError(metrics)
    /\ sf_cursor' = "closed"
    /\ etl_pc' = AfterLoad(LoadPos)
    /\ UNCHANGED <<pg_conn, sf_conn, df_len, tr_len, etl_raised,
                   earlierVars, routeVars, genVars, mainVars, valVars>>

\* the rollback of the except clause raises too: cursor.close() runs and
\* the exception leaves the load function; _calculate_daily_totals has
\* counted the error before its rollback, the other two have not
RollbackFails ==
    /\ sf_cursor = "open"
    /\ metrics' = IF etl_pc = "_calculate_daily_totals"
                     THEN CountError(metrics) ELSE metrics
    /\ sf_cursor' = "closed"
    /\ etl_pc' = "except"
    /\ UNCHANGED <<pg_conn, sf_conn, df_len, tr_len, etl_raised,
                   earlierVars, routeVars, genVars, mainVars, valVars>>

\* self.close_connections() at the end of the try block, and the two log
\* lines
CloseConnections ==
    /\ etl_pc = "close"
    /\ pg_conn' = Closed(pg_conn)
    /\ sf_conn' = Closed(sf_conn)
    /\ etl_pc' = "returned"
    /\ UNCHANGED <<sf_cursor, metrics, df_len, tr_len, etl_raised,
                   earlierVars, routeVars, genVars, mainVars, valVars>>

\* except Exception: errors += 1; self.close_connections()
FatalError ==
    /\ etl_pc = "except"
    /\ metrics' = CountError(metrics)
    /\ pg_conn' = Closed(pg_conn)
    /\ sf_conn' = Closed(sf_conn)
    /\ etl_raised' = TRUE
    /\ etl_pc' = "returned"
    /\ UNCHANGED <<sf_cursor, df_len, tr_len,
                   earlierVars, routeVars, genVars, mainVars, valVars>>

EtlNext ==
    \/ ConnectPostgres
    \/ PostgresFails
    \/ ConnectSnowflake
    \/ SnowflakeFails
    \/ Extract
    \/ ExtractFails
    \/ Transform
    \/ TransformFails
    \/ OpenCursor
    \/ CursorFails
    \/ LoadCommits
    \/ LoadFails
    \/ RollbackFails
    \/ CloseConnections
    \/ FatalError

SpecEtl == EtlInit /\ [][EtlNext]_vars

\* C24: every connection opened during run_etl is closed when run_etl
\* returns, on every path: a successful run, an empty extraction, a failure
\* of the PostgreSQL connection, a failure of the Snowflake connection
\* after PostgreSQL has connected, an exception in any later step.
C24_ConnectionsClosedOnReturn ==
    etl_pc = "returned" => (pg_conn # "open" /\ sf_conn # "open")

====
